---------------------------- MODULE Spec2Model ----------------------------
(***************************************************************************)
(* A model of the SEPA ingestion pipeline (src/src/sepa_pipeline):         *)
(* extraction of the day's archives, validation of the three member files, *)
(* the referential filter, the dimension upserts, the partition            *)
(* preparation and the chunked fact load.                                  *)
(*                                                                         *)
(* Values.  A text value is a sequence of one-character strings; the null  *)
(* of a text column is NullText.  A nullable number is <<n>> or <<>>.      *)
(* A Float64 is the record [neg, int, frac] of a decimal numeral, frac     *)
(* being its fraction digits without trailing zeros.  A data frame is a    *)
(* sequence of rows, a row a record.  Of each table the model keeps the    *)
(* key columns and one column of every kind of treatment the code gives    *)
(* (cast, required, updated on conflict, written on insert only).          *)
(***************************************************************************)
EXTENDS Integers, Sequences, FiniteSets, Bags, TLC

\* ------------------------------------------------------------------------
\* Bounds of the model
\* ------------------------------------------------------------------------

\* Runs of process_daily_data made one after the other for the same date.
MaxRuns == 2

\* Rows of a frame handed to a validator called on its own.
MaxRows == 3

\* The archives of a date directory, for the process pool.
MaxZips == 10

\* Failures of the outside world (database, object store) injected in one
\* behaviour.
MaxFaults == 2

\* ------------------------------------------------------------------------
\* Text and numbers
\* ------------------------------------------------------------------------

NullText == <<"NULL">>

None == <<>>

Some(n) == <<n>>

Digits == <<"0", "1", "2", "3", "4", "5", "6", "7", "8", "9">>

IsDigit(c) == \E i \in 1..10 : Digits[i] = c

DigitVal(c) == (CHOOSE i \in 1..10 : Digits[i] = c) - 1

UpperChars ==
    <<"A", "B", "C", "D", "E", "F", "G", "H", "I", "J", "K", "L", "M", "N",
      "O", "P", "Q", "R", "S", "T", "U", "V", "W", "X", "Y", "Z", "Ú", "Ó">>

LowerChars ==
    <<"a", "b", "c", "d", "e", "f", "g", "h", "i", "j", "k", "l", "m", "n",
      "o", "p", "q", "r", "s", "t", "u", "v", "w", "x", "y", "z", "ú", "ó">>

\* str.to_lowercase, one character
ToLowerChar(c) ==
    IF \E i \in DOMAIN UpperChars : UpperChars[i] = c
    THEN LowerChars[CHOOSE i \in DOMAIN UpperChars : UpperChars[i] = c]
    ELSE c

\* str.to_lowercase
ToLowercase(t) == [i \in 1..Len(t) |-> ToLowerChar(t[i])]

IsSpace(c) == c \in {" ", "\t", "\n", "\r"}

RECURSIVE StripStart(_)
StripStart(t) ==
    IF t # <<>> /\ IsSpace(Head(t)) THEN StripStart(Tail(t)) ELSE t

RECURSIVE StripEnd(_)
StripEnd(t) ==
    IF t # <<>> /\ IsSpace(t[Len(t)])
    THEN StripEnd(SubSeq(t, 1, Len(t) - 1))
    ELSE t

\* str.strip_chars() of a non-null text
StripChars(t) == StripEnd(StripStart(t))

\* str.contains(pat) of a non-null text, pat a literal
Contains(t, pat) ==
    \E i \in 1..(Len(t) - Len(pat) + 1) : SubSeq(t, i, i + Len(pat) - 1) = pat

\* The number of "0" characters the text ends with.
RECURSIVE TrailingZeros(_)
TrailingZeros(t) ==
    IF t # <<>> /\ t[Len(t)] = "0"
    THEN 1 + TrailingZeros(SubSeq(t, 1, Len(t) - 1))
    ELSE 0

\* str.replace(r"\.0{min,}$", ""): a dot followed by at least `min` zeros and
\* the end of the text is removed.
ReplaceDotZeros(t, min) ==
    LET k == TrailingZeros(t)
    IN  IF k >= min /\ Len(t) > k /\ t[Len(t) - k] = "."
        THEN SubSeq(t, 1, Len(t) - k - 1)
        ELSE t

\* str.replace("\x00", ""): the first null byte is removed.
ReplaceNullByte(t) ==
    IF \E i \in 1..Len(t) : t[i] = "\\0"
    THEN LET i == CHOOSE j \in 1..Len(t) :
                      t[j] = "\\0" /\ \A k \in 1..(j - 1) : t[k] # "\\0"
         IN  SubSeq(t, 1, i - 1) \o SubSeq(t, i + 1, Len(t))
    ELSE t

\* The value of a sequence of digits.
RECURSIVE DigitsValue(_)
DigitsValue(t) ==
    IF t = <<>> THEN 0
    ELSE 10 * DigitsValue(SubSeq(t, 1, Len(t) - 1)) + DigitVal(t[Len(t)])

\* [sign] digits [. digits], at least one digit
IsDecimal(t) ==
    LET u == IF t # <<>> /\ Head(t) \in {"-", "+"} THEN Tail(t) ELSE t
        dots == {i \in 1..Len(u) : u[i] = "."}
    IN  /\ Cardinality(dots) <= 1
        /\ \A i \in 1..Len(u) : IsDigit(u[i]) \/ u[i] = "."
        /\ \E i \in 1..Len(u) : IsDigit(u[i])

\* cast(pl.Float64, strict=False) of a text column: None when the text is no
\* number.
CastFloat(t) ==
    IF t = NullText \/ ~IsDecimal(t) THEN None
    ELSE LET neg == Head(t) = "-"
             u == IF Head(t) \in {"-", "+"} THEN Tail(t) ELSE t
             d == IF \E i \in 1..Len(u) : u[i] = "."
                  THEN CHOOSE i \in 1..Len(u) : u[i] = "."
                  ELSE Len(u) + 1
             ip == SubSeq(u, 1, d - 1)
             fp == SubSeq(u, d + 1, Len(u))
             fr == SubSeq(fp, 1, Len(fp) - TrailingZeros(fp))
             iv == DigitsValue(ip)
         IN  Some([neg |-> neg /\ (iv # 0 \/ fr # <<>>),
                   int |-> iv,
                   frac |-> fr])

\* cast(pl.Int32 / pl.Int64, strict=False) of a Float64 column: truncation
\* towards zero.
CastInt(f) ==
    IF f = None THEN None
    ELSE Some(IF f[1].neg THEN 0 - f[1].int ELSE f[1].int)

\* .cast(pl.Float64, strict=False).cast(pl.Int32, strict=False)
SoftCastId(t) == CastInt(CastFloat(t))

\* productos_precio_lista <= 0 of a non-null price
NonPositive(f) == f[1].neg \/ (f[1].int = 0 /\ f[1].frac = <<>>)

\* ------------------------------------------------------------------------
\* Data frames
\* ------------------------------------------------------------------------

\* pl.concat(frames)
RECURSIVE Concat(_)
Concat(frames) ==
    IF frames = <<>> THEN <<>> ELSE Head(frames) \o Concat(Tail(frames))

Range(s) == {s[i] : i \in DOMAIN s}

\* The sequences that hold every element of the set exactly once.
Orderings(S) ==
    {s \in [1..Cardinality(S) -> S] : \A x \in S : \E i \in DOMAIN s : s[i] = x}

\* df.unique(): the distinct rows; maintain_order is False, so their order
\* is any.
Unique(df) == Orderings(Range(df))

\* ------------------------------------------------------------------------
\* SEPAValidator
\* ------------------------------------------------------------------------

\* "ltima actualizaci", the text _drop_footer_rows looks for
FooterMarker ==
    <<"l", "t", "i", "m", "a", " ", "a", "c", "t", "u", "a", "l", "i", "z",
      "a", "c", "i">>

\* The marker looked for in the value as it is written, whatever its case.
IsFooterCaseSensitive(v) == v # NullText /\ Contains(v, FooterMarker)

\* mask_footer of _drop_footer_rows, for the value of the first column
IsFooter(v) == v # NullText /\ Contains(ToLowercase(v), FooterMarker)

\* SEPAValidator._drop_footer_rows, first_column = "id_comercio"
DropFooterRowsByComercio(df) == SelectSeq(df, LAMBDA r : ~IsFooter(r.id_comercio))

\* SEPAValidator._drop_footer_rows, first_column = "id_producto"
DropFooterRowsByProducto(df) == SelectSeq(df, LAMBDA r : ~IsFooter(r.id_producto))

\* The string expressions of polars applied to a cell: null stays null.
StripCell(v) == IF v = NullText THEN NullText ELSE StripChars(v)

LowerCell(v) == IF v = NullText THEN NullText ELSE ToLowercase(v)

NullByteCell(v) == IF v = NullText THEN NullText ELSE ReplaceNullByte(v)

DotZerosCell(v, min) ==
    IF v = NullText THEN NullText ELSE ReplaceDotZeros(v, min)

\* The id_comercio expression of validate_comercio.
CleanIdComercio(v) ==
    DotZerosCell(DotZerosCell(StripCell(v), 1), 2)

\* The soft casts of validate_comercio, one row (null bytes removed first).
CastComercioRow(r) ==
    LET id == NullByteCell(r.id_comercio)
        ban == NullByteCell(r.id_bandera)
        cuit == NullByteCell(r.comercio_cuit)
        razon == NullByteCell(r.comercio_razon_social)
    IN  [id_comercio |-> CleanIdComercio(id),
         id_bandera |-> SoftCastId(ban),
         comercio_cuit |-> SoftCastId(cuit),
         comercio_razon_social |-> razon]

\* The required-key filter of validate_comercio.
ComercioKept(r) ==
    /\ r.id_comercio # NullText
    /\ Len(r.id_comercio) > 0
    /\ r.id_bandera # None

\* SEPAValidator.validate_comercio, of a frame that has the required columns
validate_comercio(df) ==
    LET d1 == DropFooterRowsByComercio(df)
        d2 == [i \in 1..Len(d1) |-> CastComercioRow(d1[i])]
    IN  SelectSeq(d2, ComercioKept)

\* The soft casts of validate_sucursales and its sucursales_tipo
\* normalisation, one row.
CastSucursalRow(r) ==
    [id_comercio |-> StripCell(r.id_comercio),
     id_bandera |-> SoftCastId(r.id_bandera),
     id_sucursal |-> SoftCastId(r.id_sucursal),
     sucursales_tipo |-> LowerCell(StripCell(r.sucursales_tipo)),
     sucursales_localidad |-> r.sucursales_localidad,
     sucursales_provincia |-> r.sucursales_provincia]

\* The three keys required, the location left as it comes.
SucursalKeptByKeys(r) ==
    /\ r.id_comercio # NullText
    /\ r.id_bandera # None
    /\ r.id_sucursal # None

\* The required-field filter of validate_sucursales.
SucursalKept(r) ==
    /\ r.id_comercio # NullText
    /\ r.id_bandera # None
    /\ r.id_sucursal # None
    /\ r.sucursales_localidad # NullText
    /\ r.sucursales_provincia # NullText

\* SEPAValidator.validate_sucursales, of a frame that has the required
\* columns
validate_sucursales(df) ==
    LET d1 == DropFooterRowsByComercio(df)
        d2 == [i \in 1..Len(d1) |-> CastSucursalRow(d1[i])]
    IN  SelectSeq(d2, SucursalKept)

\* The productos_ean expression of validate_productos.
ParseEan(v) ==
    IF v \in {<<"1">>, <<"T", "r", "u", "e">>, <<"t", "r", "u", "e">>}
    THEN Some(TRUE)
    ELSE IF v \in {<<"0">>, <<"F", "a", "l", "s", "e">>,
                   <<"f", "a", "l", "s", "e">>, <<>>}
         THEN Some(FALSE)
         ELSE None

\* The soft casts of validate_productos, one row.
CastProductoRow(r) ==
    [id_comercio |-> StripCell(r.id_comercio),
     id_bandera |-> SoftCastId(r.id_bandera),
     id_sucursal |-> SoftCastId(r.id_sucursal),
     id_producto |-> SoftCastId(r.id_producto),
     productos_ean |-> ParseEan(r.productos_ean),
     productos_descripcion |-> r.productos_descripcion,
     productos_precio_lista |-> CastFloat(r.productos_precio_lista)]

\* The essential fields required, and a price above zero.
ProductoKeptWithPrice(r) ==
    /\ r.id_comercio # NullText
    /\ r.id_bandera # None
    /\ r.id_sucursal # None
    /\ r.id_producto # None
    /\ r.productos_precio_lista # None
    /\ r.productos_descripcion # NullText
    /\ ~NonPositive(r.productos_precio_lista)

\* The essential-field filter of validate_productos.
ProductoKept(r) ==
    /\ r.id_comercio # NullText
    /\ r.id_bandera # None
    /\ r.id_sucursal # None
    /\ r.id_producto # None
    /\ r.productos_precio_lista # None
    /\ r.productos_descripcion # NullText

\* SEPAValidator.validate_productos, of a frame that has the required
\* columns.  Rows with a price <= 0 are counted for the log and kept.
validate_productos(df) ==
    LET d1 == DropFooterRowsByProducto(df)
        d2 == [i \in 1..Len(d1) |-> CastProductoRow(d1[i])]
    IN  SelectSeq(d2, ProductoKept)

\* select(["id_comercio", "id_bandera"]).unique()
ComercioKeys(df) == {<<r.id_comercio, r.id_bandera>> : r \in Range(df)}

\* select(["id_comercio", "id_bandera", "id_sucursal"]).unique()
SucursalKeys(df) ==
    {<<r.id_comercio, r.id_bandera, r.id_sucursal>> : r \in Range(df)}

\* A join never matches a key that holds a null.
PairJoins(r, keys) ==
    /\ r.id_comercio # NullText
    /\ r.id_bandera # None
    /\ <<r.id_comercio, r.id_bandera>> \in keys

TripleJoins(r, keys) ==
    /\ r.id_comercio # NullText
    /\ r.id_bandera # None
    /\ r.id_sucursal # None
    /\ <<r.id_comercio, r.id_bandera, r.id_sucursal>> \in keys

\* The distinct (id_comercio, id_bandera) keys of the Sucursal frame that no
\* Comercio row has: orphaned_sucursales, whose height is logged.  Nothing
\* is compared when one side has no keys.
OrphanedSucursales(df_comercios, df_sucursales) ==
    LET comercio_keys == ComercioKeys(df_comercios)
        sucursales_keys == ComercioKeys(df_sucursales)
    IN  IF sucursales_keys # {} /\ comercio_keys # {}
        THEN sucursales_keys \ comercio_keys
        ELSE {}

\* The Sucursal frame returned as it came, orphans included.
FilterSucursalesKeepsAll(df_comercios, df_sucursales) == df_sucursales

\* validate_referential_integrity, the Sucursal frame it returns: the
\* orphans are dropped only when both key sets have rows.
FilterSucursales(df_comercios, df_sucursales) ==
    LET comercio_keys == ComercioKeys(df_comercios)
        sucursales_keys == ComercioKeys(df_sucursales)
    IN  IF sucursales_keys # {} /\ comercio_keys # {}
        THEN SelectSeq(df_sucursales, LAMBDA r : PairJoins(r, comercio_keys))
        ELSE df_sucursales

\* The Producto frame returned as it came, whatever its keys.
FilterProductosKeepsAll(df_comercios, df_sucursales, df_productos) ==
    df_productos

\* validate_referential_integrity, the Producto frame it returns, checked
\* against the Sucursal frame it has just filtered.
FilterProductos(df_comercios, df_sucursales, df_productos) ==
    LET sucursal_full_keys ==
            SucursalKeys(FilterSucursales(df_comercios, df_sucursales))
        productos_sucursal_keys == SucursalKeys(df_productos)
    IN  IF sucursal_full_keys # {} /\ productos_sucursal_keys # {}
        THEN SelectSeq(df_productos,
                       LAMBDA r : TripleJoins(r, sucursal_full_keys))
        ELSE df_productos

\* ------------------------------------------------------------------------
\* The relational store
\* ------------------------------------------------------------------------

\* The date of the runs, and its partition precios_<date>.
TargetDate == "D"

\* One statement of upsert_comercios: INSERT ... ON CONFLICT (id_comercio,
\* id_bandera) DO UPDATE, which rewrites the descriptive columns only.
UpsertComercioRow(table, r) ==
    IF \E e \in table : e.id_comercio = r.id_comercio /\ e.id_bandera = r.id_bandera
    THEN {IF e.id_comercio = r.id_comercio /\ e.id_bandera = r.id_bandera
          THEN [e EXCEPT !.comercio_razon_social = r.comercio_razon_social]
          ELSE e : e \in table}
    ELSE table \cup {r}

\* cur.executemany(insert_sql, records) of upsert_comercios
RECURSIVE ExecuteManyComercios(_, _)
ExecuteManyComercios(table, records) ==
    IF records = <<>> THEN table
    ELSE ExecuteManyComercios(UpsertComercioRow(table, Head(records)),
                              Tail(records))

\* One statement of upsert_sucursales: ON CONFLICT (id_comercio, id_bandera,
\* id_sucursal) DO UPDATE of every other column.
UpsertSucursalRow(table, r) ==
    LET same(e) == /\ e.id_comercio = r.id_comercio
                   /\ e.id_bandera = r.id_bandera
                   /\ e.id_sucursal = r.id_sucursal
    IN  {e \in table : ~same(e)} \cup {r}

\* cur.executemany(insert_sql, records) of upsert_sucursales
RECURSIVE ExecuteManySucursales(_, _)
ExecuteManySucursales(table, records) ==
    IF records = <<>> THEN table
    ELSE ExecuteManySucursales(UpsertSucursalRow(table, Head(records)),
                               Tail(records))

\* The columns upsert_productos_master selects.
MasterRecord(r) ==
    [id_producto |-> r.id_producto,
     productos_ean |-> r.productos_ean,
     productos_descripcion |-> r.productos_descripcion]

\* The selected columns of every row, nothing reduced.
EveryRecord(df) == {{MasterRecord(r) : r \in Range(df)}}

\* .unique(subset=["id_producto"]): one row of every id_producto, any of
\* them (keep is "any").  The batches it can give, each a set of records.
UniqueByProducto(df) ==
    LET recs == {MasterRecord(r) : r \in Range(df)}
        ids == {m.id_producto : m \in recs}
    IN  {b \in SUBSET recs :
            /\ \A i \in ids : \E m \in b : m.id_producto = i
            /\ \A m, n \in b : m.id_producto = n.id_producto => m = n}

\* One statement of upsert_productos_master: ON CONFLICT (id_producto) DO
\* UPDATE of the descriptive columns; productos_ean is written on insert
\* only.
UpsertProductoRow(table, m) ==
    IF \E e \in table : e.id_producto = m.id_producto
    THEN {IF e.id_producto = m.id_producto
          THEN [e EXCEPT !.productos_descripcion = m.productos_descripcion]
          ELSE e : e \in table}
    ELSE table \cup {m}

\* cur.executemany(insert_sql, records) of upsert_productos_master; the
\* records of a batch have distinct keys, so their order does not matter.
RECURSIVE ExecuteManyProductos(_, _)
ExecuteManyProductos(table, batch) ==
    IF batch = {} THEN table
    ELSE LET m == CHOOSE x \in batch : TRUE
         IN  ExecuteManyProductos(UpsertProductoRow(table, m), batch \ {m})

\* A row of df_precios in bulk_load_precios: the selected columns and the
\* two literal columns.
PrecioRow(r, scraped_at, fecha_vigencia) ==
    [id_comercio |-> r.id_comercio,
     id_bandera |-> r.id_bandera,
     id_sucursal |-> r.id_sucursal,
     id_producto |-> r.id_producto,
     productos_precio_lista |-> r.productos_precio_lista,
     productos_descripcion |-> r.productos_descripcion,
     scraped_at |-> scraped_at,
     fecha_vigencia |-> fecha_vigencia]

\* The rows a COPY of the frame appends, as a bag.
CopyRows(df, scraped_at, fecha_vigencia) ==
    LET rows == [i \in 1..Len(df) |-> PrecioRow(df[i], scraped_at, fecha_vigencia)]
    IN  [x \in Range(rows) |-> Cardinality({i \in 1..Len(rows) : rows[i] = x})]

\* ------------------------------------------------------------------------
\* The inputs: the archives of the date directory
\* ------------------------------------------------------------------------

\* sorted(date_dir.glob("sepa_*.zip")), by stem
Archives == {"sepa_1", "sepa_2"}

FooterText ==
    <<"Ú", "l", "t", "i", "m", "a", " ", "a", "c", "t", "u", "a", "l", "i",
      "z", "a", "c", "i", "ó", "n">>

ComercioA ==
    [id_comercio |-> <<"1">>, id_bandera |-> <<"1">>,
     comercio_cuit |-> <<"3", "0">>, comercio_razon_social |-> <<"A">>]

\* The key of ComercioA written as floats, with other descriptive fields.
ComercioAFloat ==
    [id_comercio |-> <<"1", ".", "0">>, id_bandera |-> <<"1", ".", "0">>,
     comercio_cuit |-> <<"3", "1">>, comercio_razon_social |-> <<"B">>]

ComercioNoBandera ==
    [id_comercio |-> <<"2">>, id_bandera |-> <<"a", "b", "c">>,
     comercio_cuit |-> NullText, comercio_razon_social |-> <<"C">>]

ComercioFooter ==
    [id_comercio |-> FooterText, id_bandera |-> NullText,
     comercio_cuit |-> NullText, comercio_razon_social |-> NullText]

SucursalA1 ==
    [id_comercio |-> <<"1">>, id_bandera |-> <<"1">>, id_sucursal |-> <<"1">>,
     sucursales_tipo |-> <<"W", "e", "b">>,
     sucursales_localidad |-> <<"X">>, sucursales_provincia |-> <<"Y">>]

\* A branch of a merchant no archive declares.
SucursalOrphan ==
    [id_comercio |-> <<"2">>, id_bandera |-> <<"1">>, id_sucursal |-> <<"1">>,
     sucursales_tipo |-> <<"M", "i", "n", "i">>,
     sucursales_localidad |-> <<"X">>, sucursales_provincia |-> <<"Y">>]

SucursalNoLocalidad ==
    [id_comercio |-> <<"1">>, id_bandera |-> <<"1">>, id_sucursal |-> <<"2">>,
     sucursales_tipo |-> <<"W", "e", "b">>,
     sucursales_localidad |-> NullText, sucursales_provincia |-> <<"Y">>]

ProductoP ==
    [id_comercio |-> <<"1">>, id_bandera |-> <<"1">>, id_sucursal |-> <<"1">>,
     id_producto |-> <<"7">>, productos_ean |-> <<"1">>,
     productos_descripcion |-> <<"P">>,
     productos_precio_lista |-> <<"1", "0", "0", ".", "0">>]

\* The product of ProductoP with another description, flag and price.
ProductoPAlt ==
    [id_comercio |-> <<"1">>, id_bandera |-> <<"1", ".", "0">>,
     id_sucursal |-> <<"1">>,
     id_producto |-> <<"7">>, productos_ean |-> <<"0">>,
     productos_descripcion |-> <<"Q">>,
     productos_precio_lista |-> <<"9">>]

\* A price at a branch no archive declares.
ProductoOrphan ==
    [id_comercio |-> <<"1">>, id_bandera |-> <<"1">>, id_sucursal |-> <<"2">>,
     id_producto |-> <<"8">>, productos_ean |-> <<"1">>,
     productos_descripcion |-> <<"R">>,
     productos_precio_lista |-> <<"5">>]

ProductoFree ==
    [id_comercio |-> <<"1">>, id_bandera |-> <<"1">>, id_sucursal |-> <<"1">>,
     id_producto |-> <<"8">>, productos_ean |-> NullText,
     productos_descripcion |-> <<"R">>,
     productos_precio_lista |-> <<"0">>]

\* A member file as pl.read_csv meets it: whether it can be read at all,
\* whether its header has the required columns, and its rows.
File(rows) == [readable |-> TRUE, has_required_cols |-> TRUE, rows |-> rows]

MissingColumnFile ==
    [readable |-> TRUE, has_required_cols |-> FALSE, rows |-> <<>>]

UnreadableFile ==
    [readable |-> FALSE, has_required_cols |-> FALSE, rows |-> <<>>]

\* An archive: whether its namelist holds the three EXPECTED_FILES, and the
\* three members.
Archive(c, s, p) ==
    [has_expected_files |-> TRUE, comercio |-> c, sucursales |-> s,
     productos |-> p]

ArchiveKinds ==
    { Archive(File(<<ComercioA, ComercioFooter>>), File(<<SucursalA1>>),
              File(<<ProductoP, ProductoOrphan>>)),
      Archive(File(<<ComercioAFloat>>), File(<<SucursalOrphan>>),
              File(<<ProductoPAlt, ProductoFree>>)),
      Archive(File(<<ComercioA>>), File(<<SucursalA1>>), MissingColumnFile),
      Archive(File(<<ComercioNoBandera>>), File(<<SucursalA1>>),
              File(<<ProductoP>>)),
      Archive(UnreadableFile, File(<<SucursalNoLocalidad>>),
              File(<<ProductoP>>)),
      Archive(MissingColumnFile, File(<<SucursalA1>>),
              File(<<ProductoP>>)),
      Archive(File(<<ComercioA>>), File(<<SucursalA1>>),
              File(<<ProductoOrphan>>)),
      [Archive(File(<<ComercioA>>), File(<<SucursalA1>>),
               File(<<ProductoP>>)) EXCEPT !.has_expected_files = FALSE] }

\* A store no run has written yet.
EmptyStore ==
    [comercios |-> {}, sucursales |-> {}, productos_master |-> {},
     precios |-> EmptyBag]

\* The store as an earlier run for the date left it, which had ComercioA,
\* SucursalA1 and ProductoP: its fact row is stale for the runs to come.
EarlierStore ==
    [comercios |-> Range(validate_comercio(<<ComercioA>>)),
     sucursales |-> Range(validate_sucursales(<<SucursalA1>>)),
     productos_master |-> {MasterRecord(CastProductoRow(ProductoP))},
     precios |-> SetToBag({PrecioRow(CastProductoRow(ProductoP), 0, TargetDate)})]

\* ------------------------------------------------------------------------
\* State
\* ------------------------------------------------------------------------

VARIABLES
    archives,             \* the archives of the date directory (the input)
    db,                   \* the tables comercios, sucursales, productos_master
                          \* and the partition of the date
    run,                  \* the number of the run; its scraped_at
    pc,                   \* where process_daily_data is
    futures,              \* extract_all_zips: the state of each future
    collected,            \* extract_all_zips: its local all_csv_paths
    all_csv_paths,        \* process_daily_data: what extract_all_zips returned
    df_comercios,         \* the validated Comercio frame
    df_sucursales,        \* the validated and filtered Sucursal frame
    idx,                  \* the chunk of the loop of phase 3 (from 1)
    df_producto,          \* the frame of that chunk
    total_prices_loaded,
    parquet_writer,       \* loader._parquet_writer: "None" or "open"
    oplog,                \* the loader calls of the run, in order
    chunk_log,            \* how each chunk of the run ended, in order
    result,               \* how the run ended
    faults,               \* failures injected so far
    first_run,            \* the store as the first completed run left it
    writers_created,      \* the ParquetWriter objects the run has made
    initial_db,           \* the store as the first run found it
    crashed,              \* the runs whose process died in the chunk phase
    call,                 \* a function called on its own: its name and input
    ret,                  \* what that call returned: <<>> before it returns
    zip_files,            \* the pool: the archives of the date directory
    submitted,            \* the pool: the tasks executor.submit has queued
    started,              \* the pool: the tasks a worker has taken
    finished,             \* the pool: the tasks whose extract_zip has ended
    processes,            \* the pool: the worker processes spawned
    entry,                \* the scraper: the method called, and its arguments
    spc,                  \* the scraper: where that call is
    fecha,                \* the scraper: the day, hoy and nombre_weekday
    attempts,             \* _connect_to_source: how each client.get ended
    response,             \* what _connect_to_source returned: <<>> before
    download_link,        \* the link _download_data is called with
    min_file_size_mb,     \* the minimum _download_data is called with
    data_dir,             \* the data directory: the size of each file
    requests,             \* the GET requests _download_data has made
    steps,                \* the methods the call has gone through, in order
    returned              \* what the call returned: <<>> before it returns

\* The variables of the calls of one function on its own.
unit_vars == <<call, ret>>

\* The variables of the worker pool of extract_all_zips taken on its own.
pool_vars == <<zip_files, submitted, started, finished, processes>>

\* The variables of the runs of process_daily_data.
run_vars ==
    <<archives, db, run, pc, futures, collected, all_csv_paths, df_comercios,
      df_sucursales, idx, df_producto, total_prices_loaded, parquet_writer,
      oplog, chunk_log, result, faults, first_run, writers_created,
      initial_db, crashed>>

\* The variables of the scraper.
scraper_vars ==
    <<entry, spc, fecha, attempts, response, download_link, min_file_size_mb,
      data_dir, requests, steps, returned>>

vars == <<run_vars, unit_vars, pool_vars, scraper_vars>>

\* No function is called on its own.
NoCall ==
    /\ call = [fn |-> "none"]
    /\ ret = <<>>

\* The pool is not looked at.
NoPool ==
    /\ zip_files = 0
    /\ submitted = 0
    /\ started = 0
    /\ finished = {}
    /\ processes = 0

\* No scraper is looked at.
NoScraper ==
    /\ entry = [fn |-> "none"]
    /\ spc = "idle"
    /\ fecha = [hoy |-> "", nombre_weekday |-> <<>>]
    /\ attempts = <<>>
    /\ response = <<>>
    /\ download_link = None
    /\ min_file_size_mb = 0
    /\ data_dir = <<>>
    /\ requests = 0
    /\ steps = <<>>
    /\ returned = <<>>

\* What a run starts from: the locals of process_daily_data, a new
\* SEPALoader (its _parquet_writer None) and nothing logged.
RunLocals ==
    /\ pc' = "extract"
    /\ futures' = [a \in Archives |-> "pending"]
    /\ collected' = <<>>
    /\ all_csv_paths' = <<>>
    /\ df_comercios' = <<>>
    /\ df_sucursales' = <<>>
    /\ idx' = 0
    /\ df_producto' = <<>>
    /\ total_prices_loaded' = 0
    /\ parquet_writer' = "None"
    /\ writers_created' = 0
    /\ oplog' = <<>>
    /\ chunk_log' = <<>>
    /\ result' = "running"

\* The first run is about to start on the archives and the store given.
RunStarts(given_archives, store) ==
    /\ archives = given_archives
    /\ db = store
    /\ initial_db = store
    /\ run = 1
    /\ pc = "extract"
    /\ futures = [a \in Archives |-> "pending"]
    /\ collected = <<>>
    /\ all_csv_paths = <<>>
    /\ df_comercios = <<>>
    /\ df_sucursales = <<>>
    /\ idx = 0
    /\ df_producto = <<>>
    /\ total_prices_loaded = 0
    /\ parquet_writer = "None"
    /\ writers_created = 0
    /\ oplog = <<>>
    /\ chunk_log = <<>>
    /\ result = "running"
    /\ faults = 0
    /\ first_run = <<>>
    /\ crashed = {}

Init ==
    /\ archives \in [Archives -> ArchiveKinds]
    /\ db \in {EmptyStore, EarlierStore}
    /\ initial_db = db
    /\ writers_created = 0
    /\ crashed = {}
    /\ NoCall
    /\ NoPool
    /\ NoScraper
    /\ run = 1
    /\ pc = "extract"
    /\ futures = [a \in Archives |-> "pending"]
    /\ collected = <<>>
    /\ all_csv_paths = <<>>
    /\ df_comercios = <<>>
    /\ df_sucursales = <<>>
    /\ idx = 0
    /\ df_producto = <<>>
    /\ total_prices_loaded = 0
    /\ parquet_writer = "None"
    /\ oplog = <<>>
    /\ chunk_log = <<>>
    /\ result = "running"
    /\ faults = 0
    /\ first_run = <<>>

\* An entry of oplog: the loader method, how it ended ("commit", "noop" or
\* "raise"), the frame it was handed and the chunk of the loop it was called
\* for (0 before the loop).
Call(op, end, rows) == [op |-> op, end |-> end, rows |-> rows, chunk |-> idx]

\* A failure of the outside world may be injected.
MayFail == faults < MaxFaults

\* The exception leaves process_daily_data: the run is over.
Raise ==
    /\ pc' = "fatal"
    /\ result' = "raised"

\* ------------------------------------------------------------------------
\* SEPAExtractor.extract_zip
\* ------------------------------------------------------------------------

EXPECTED_FILES == {"comercio.csv", "sucursales.csv", "productos.csv"}

\* csv_name.replace(".csv", "")
CsvType(csv_name) ==
    CASE csv_name = "comercio.csv" -> "comercio"
      [] csv_name = "sucursales.csv" -> "sucursales"
      [] csv_name = "productos.csv" -> "productos"

\* missing_files = EXPECTED_FILES - zip_files
MissingFiles(namelist) == EXPECTED_FILES \ namelist

\* zip_ref.extractall(extract_dir), extract_dir = extract_to / zip_path.stem:
\* every member of the archive is written under the directory of the
\* archive.  The disk is the set of the files <<directory, name>> under
\* extract_to.
ExtractAll(zip, disk) == disk \cup {<<zip.stem, n>> : n \in zip.namelist}

\* The mapping extract_zip returns.
CsvPaths(zip) ==
    [t \in {CsvType(n) : n \in EXPECTED_FILES} |->
        <<zip.stem, CHOOSE n \in EXPECTED_FILES : CsvType(n) = t>>]

\* The archive unpacked before its namelist is checked.
ExtractZipThenCheck(zip, disk) ==
    IF MissingFiles(zip.namelist) # {}
    THEN [raised |-> TRUE, name |-> zip.stem,
          missing_files |-> MissingFiles(zip.namelist),
          csv_paths |-> <<>>, disk |-> ExtractAll(zip, disk)]
    ELSE [raised |-> FALSE, name |-> zip.stem, missing_files |-> {},
          csv_paths |-> CsvPaths(zip), disk |-> ExtractAll(zip, disk)]

\* SEPAExtractor.extract_zip(zip_path, extract_to): the ValueError it raises
\* (with the name of the archive and missing_files in its message) or the
\* csv_paths it returns, and the disk it leaves.
extract_zip(zip, disk) ==
    IF MissingFiles(zip.namelist) # {}
    THEN [raised |-> TRUE, name |-> zip.stem,
          missing_files |-> MissingFiles(zip.namelist),
          csv_paths |-> <<>>, disk |-> disk]
    ELSE [raised |-> FALSE, name |-> zip.stem, missing_files |-> {},
          csv_paths |-> CsvPaths(zip), disk |-> ExtractAll(zip, disk)]

\* ------------------------------------------------------------------------
\* SEPAExtractor.extract_all_zips
\* ------------------------------------------------------------------------

\* A worker of the pool ends extract_zip of one archive: it raises when
\* EXPECTED_FILES are not all in the namelist.
ExtractZip(a) ==
    /\ pc = "extract"
    /\ futures[a] = "pending"
    /\ futures' = [futures EXCEPT ![a] =
                      IF archives[a].has_expected_files THEN "done" ELSE "raised"]
    /\ UNCHANGED <<archives, db, run, pc, collected, all_csv_paths,
                   df_comercios, df_sucursales, idx, df_producto,
                   total_prices_loaded, parquet_writer, writers_created,
                   oplog, chunk_log, result, faults, first_run, initial_db,
                   crashed, unit_vars, pool_vars,
                   scraper_vars>>

\* as_completed yields a future whose result() returns: its paths are
\* appended.
CollectResult(a) ==
    /\ pc = "extract"
    /\ futures[a] = "done"
    /\ a \notin Range(collected)
    /\ collected' = Append(collected, a)
    /\ UNCHANGED <<archives, db, run, pc, futures, all_csv_paths,
                   df_comercios, df_sucursales, idx, df_producto,
                   total_prices_loaded, parquet_writer, writers_created,
                   oplog, chunk_log, result, faults, first_run, initial_db,
                   crashed, unit_vars, pool_vars,
                   scraper_vars>>

\* The failed extraction logged and passed over, the loop going on with the
\* other futures.
CollectFailureSkipped(a) ==
    /\ pc = "extract"
    /\ futures[a] = "raised"
    /\ a \notin Range(collected)
    /\ collected' = Append(collected, a)
    /\ UNCHANGED <<archives, db, run, pc, futures, all_csv_paths,
                   df_comercios, df_sucursales, idx, df_producto,
                   total_prices_loaded, parquet_writer, writers_created,
                   oplog, chunk_log, result, faults, first_run, initial_db,
                   crashed, unit_vars, pool_vars,
                   scraper_vars>>

\* as_completed yields a future whose result() raises: logged and raised
\* again, out of extract_all_zips and of process_daily_data.
CollectFailure(a) ==
    /\ pc = "extract"
    /\ futures[a] = "raised"
    /\ Raise
    /\ UNCHANGED <<archives, db, run, futures, collected, all_csv_paths,
                   df_comercios, df_sucursales, idx, df_producto,
                   total_prices_loaded, parquet_writer, writers_created,
                   oplog, chunk_log, faults, first_run, initial_db, crashed,
                   unit_vars, pool_vars,
                   scraper_vars>>

\* Every future was yielded: extract_all_zips returns all_csv_paths.
ExtractReturn ==
    /\ pc = "extract"
    /\ Range(collected) = Archives
    /\ all_csv_paths' = collected
    /\ pc' = "dimensions"
    /\ UNCHANGED <<archives, db, run, futures, collected, df_comercios,
                   df_sucursales, idx, df_producto, total_prices_loaded,
                   parquet_writer, writers_created, oplog, chunk_log, result,
                   faults, first_run, initial_db, crashed, unit_vars,
                   pool_vars,
                   scraper_vars>>

\* ------------------------------------------------------------------------
\* process_daily_data, phase 1: the dimensions
\* ------------------------------------------------------------------------

\* all_comercios / all_sucursales: the frames pl.read_csv could read, in the
\* order of all_csv_paths; a file it cannot read is logged and skipped.
FramesRead(member) ==
    LET files == [i \in 1..Len(all_csv_paths) |-> archives[all_csv_paths[i]][member]]
    IN  SelectSeq(files, LAMBDA f : f.readable)

\* pl.concat raises on an empty list and on frames whose columns differ, and
\* the validator raises on a frame without the required columns.
FramesRaise(frames) ==
    frames = <<>> \/ \E i \in 1..Len(frames) : ~frames[i].has_required_cols

\* pl.concat(frames) of the rows
ConcatRows(frames) == Concat([i \in 1..Len(frames) |-> frames[i].rows])

\* The two read loops, concat, unique, the two validators and the
\* referential filter of the Sucursal frame.
ValidateDimensions ==
    /\ pc = "dimensions"
    /\ ~FramesRaise(FramesRead("comercio"))
    /\ ~FramesRaise(FramesRead("sucursales"))
    /\ \E c \in Unique(ConcatRows(FramesRead("comercio"))),
          s \in Unique(ConcatRows(FramesRead("sucursales"))) :
          /\ df_comercios' = validate_comercio(c)
          /\ df_sucursales' =
                 FilterSucursales(validate_comercio(c), validate_sucursales(s))
    /\ pc' = "upsert_comercios"
    /\ UNCHANGED <<archives, db, run, futures, collected, all_csv_paths, idx,
                   df_producto, total_prices_loaded, parquet_writer,
                   writers_created, oplog, chunk_log, result, faults,
                   first_run, initial_db, crashed, unit_vars, pool_vars,
                   scraper_vars>>

\* The same steps when one of them raises: nothing catches it.
ValidateDimensionsRaises ==
    /\ pc = "dimensions"
    /\ FramesRaise(FramesRead("comercio")) \/ FramesRaise(FramesRead("sucursales"))
    /\ Raise
    /\ UNCHANGED <<archives, db, run, futures, collected, all_csv_paths,
                   df_comercios, df_sucursales, idx, df_producto,
                   total_prices_loaded, parquet_writer, writers_created,
                   oplog, chunk_log, faults, first_run, initial_db, crashed,
                   unit_vars, pool_vars,
                   scraper_vars>>

\* loader.upsert_comercios(df_comercios), committed
UpsertComercios ==
    /\ pc = "upsert_comercios"
    /\ db' = [db EXCEPT !.comercios = ExecuteManyComercios(@, df_comercios)]
    /\ oplog' = Append(oplog, Call("upsert_comercios", "commit", df_comercios))
    /\ pc' = "upsert_sucursales"
    /\ UNCHANGED <<archives, run, futures, collected, all_csv_paths,
                   df_comercios, df_sucursales, idx, df_producto,
                   total_prices_loaded, parquet_writer, writers_created,
                   chunk_log, result, faults, first_run, initial_db, crashed,
                   unit_vars, pool_vars,
                   scraper_vars>>

\* loader.upsert_comercios raises (the transaction is rolled back)
UpsertComerciosFails ==
    /\ pc = "upsert_comercios"
    /\ MayFail
    /\ faults' = faults + 1
    /\ oplog' = Append(oplog, Call("upsert_comercios", "raise", df_comercios))
    /\ Raise
    /\ UNCHANGED <<archives, db, run, futures, collected, all_csv_paths,
                   df_comercios, df_sucursales, idx, df_producto,
                   total_prices_loaded, parquet_writer, writers_created,
                   chunk_log, first_run, initial_db, crashed, unit_vars,
                   pool_vars,
                   scraper_vars>>

\* The Sucursal upsert followed by the chunks at once, the partition not
\* prepared.
UpsertSucursalesThenChunks ==
    /\ pc = "upsert_sucursales"
    /\ db' = [db EXCEPT !.sucursales = ExecuteManySucursales(@, df_sucursales)]
    /\ oplog' = Append(oplog,
                       Call("upsert_sucursales",
                            IF df_sucursales = <<>> THEN "noop" ELSE "commit",
                            df_sucursales))
    /\ pc' = "chunk"
    /\ idx' = 1
    /\ UNCHANGED <<archives, run, futures, collected, all_csv_paths,
                   df_comercios, df_sucursales, df_producto,
                   total_prices_loaded, parquet_writer, writers_created,
                   chunk_log, result, faults, first_run, initial_db, crashed,
                   unit_vars, pool_vars,
                   scraper_vars>>

\* loader.upsert_sucursales(df_sucursales): returns at once on an empty
\* frame, commits otherwise
UpsertSucursales ==
    /\ pc = "upsert_sucursales"
    /\ db' = [db EXCEPT !.sucursales = ExecuteManySucursales(@, df_sucursales)]
    /\ oplog' = Append(oplog,
                       Call("upsert_sucursales",
                            IF df_sucursales = <<>> THEN "noop" ELSE "commit",
                            df_sucursales))
    /\ pc' = "prepare_precios_partition"
    /\ UNCHANGED <<archives, run, futures, collected, all_csv_paths,
                   df_comercios, df_sucursales, idx, df_producto,
                   total_prices_loaded, parquet_writer, writers_created,
                   chunk_log, result, faults, first_run, initial_db, crashed,
                   unit_vars, pool_vars,
                   scraper_vars>>

\* loader.upsert_sucursales raises
UpsertSucursalesFails ==
    /\ pc = "upsert_sucursales"
    /\ df_sucursales # <<>>
    /\ MayFail
    /\ faults' = faults + 1
    /\ oplog' = Append(oplog, Call("upsert_sucursales", "raise", df_sucursales))
    /\ Raise
    /\ UNCHANGED <<archives, db, run, futures, collected, all_csv_paths,
                   df_comercios, df_sucursales, idx, df_producto,
                   total_prices_loaded, parquet_writer, writers_created,
                   chunk_log, first_run, initial_db, crashed, unit_vars,
                   pool_vars,
                   scraper_vars>>

\* ------------------------------------------------------------------------
\* process_daily_data, phase 2: the partition
\* ------------------------------------------------------------------------

\* SELECT create_precios_partition(fecha_vigencia): the stored routine
\* creates the partition when it is absent and leaves its rows otherwise.
CreatePreciosPartition(precios) == precios

\* The partition left as it was found.
TruncateTableSkipped(precios) == precios

\* TRUNCATE TABLE precios_<date>
TruncateTable(precios) == EmptyBag

\* loader.prepare_precios_partition(target_date), committed
PreparePartition ==
    /\ pc = "prepare_precios_partition"
    /\ db' = [db EXCEPT !.precios = TruncateTable(CreatePreciosPartition(@))]
    /\ oplog' = Append(oplog, Call("prepare_precios_partition", "commit", <<>>))
    /\ pc' = "chunk"
    /\ idx' = 1
    /\ total_prices_loaded' = 0
    /\ UNCHANGED <<archives, run, futures, collected, all_csv_paths,
                   df_comercios, df_sucursales, df_producto, parquet_writer,
                   writers_created, chunk_log, result, faults, first_run,
                   initial_db, crashed, unit_vars, pool_vars,
                   scraper_vars>>

\* The failure of prepare_precios_partition logged and the run going on to
\* its chunks.
PreparePartitionFailureIgnored ==
    /\ pc = "prepare_precios_partition"
    /\ MayFail
    /\ faults' = faults + 1
    /\ oplog' = Append(oplog, Call("prepare_precios_partition", "raise", <<>>))
    /\ pc' = "chunk"
    /\ idx' = 1
    /\ UNCHANGED <<archives, db, run, futures, collected, all_csv_paths,
                   df_comercios, df_sucursales, df_producto,
                   total_prices_loaded, parquet_writer, writers_created,
                   chunk_log, result, first_run, initial_db, crashed,
                   unit_vars, pool_vars,
                   scraper_vars>>

\* loader.prepare_precios_partition raises
PreparePartitionFails ==
    /\ pc = "prepare_precios_partition"
    /\ MayFail
    /\ faults' = faults + 1
    /\ oplog' = Append(oplog, Call("prepare_precios_partition", "raise", <<>>))
    /\ Raise
    /\ UNCHANGED <<archives, db, run, futures, collected, all_csv_paths,
                   df_comercios, df_sucursales, idx, df_producto,
                   total_prices_loaded, parquet_writer, writers_created,
                   chunk_log, first_run, initial_db, crashed, unit_vars,
                   pool_vars,
                   scraper_vars>>

\* ------------------------------------------------------------------------
\* process_daily_data, phase 3: the chunks
\* ------------------------------------------------------------------------

\* The productos member of the chunk of the loop.
ChunkFile == archives[all_csv_paths[idx]].productos

\* An entry of chunk_log: the archive of the chunk, how the chunk ended
\* ("loaded", "empty" or "failed"), the step that raised, and the rows it
\* had left after validation and the referential filter.
Chunk(end, step, height) ==
    [archive |-> all_csv_paths[idx], end |-> end, step |-> step,
     height |-> height]

\* The loop goes to its next chunk, or ends.
NextChunk ==
    /\ idx' = idx + 1
    /\ pc' = IF idx + 1 > Len(all_csv_paths) THEN "close" ELSE "chunk"

\* The failure of a chunk let out of the loop and of the run.
ChunkFailureRaised(step, height) ==
    /\ chunk_log' = Append(chunk_log, Chunk("failed", step, height))
    /\ idx' = idx
    /\ Raise

\* A handler around each loader step: the failure is logged and the chunk
\* goes on with its next step.
CatchStepFailure(step, height) ==
    /\ chunk_log' = Append(chunk_log, Chunk("failed", step, height))
    /\ IF step = "upsert_productos_master"
       THEN idx' = idx /\ pc' = "bulk_load_precios"
       ELSE IF step = "bulk_load_precios"
            THEN idx' = idx /\ pc' = "append_to_parquet"
            ELSE NextChunk
    /\ result' = result

\* The handler of the loop: the failure is logged with the ordinal of the
\* chunk, and the loop goes on.
CatchChunkFailure(step, height) ==
    /\ chunk_log' = Append(chunk_log, Chunk("failed", step, height))
    /\ NextChunk
    /\ result' = result

\* The chunk handed to the loader whatever rows it has left.
ReadChunkAlwaysLoads ==
    /\ pc = "chunk"
    /\ ChunkFile.readable /\ ChunkFile.has_required_cols
    /\ df_producto' = FilterProductos(df_comercios, df_sucursales,
                                      validate_productos(ChunkFile.rows))
    /\ pc' = "upsert_productos_master"
    /\ UNCHANGED <<archives, db, run, futures, collected, all_csv_paths,
                   df_comercios, df_sucursales, idx, total_prices_loaded,
                   parquet_writer, writers_created, oplog, chunk_log, result,
                   faults, first_run, initial_db, crashed, unit_vars,
                   pool_vars,
                   scraper_vars>>

\* pl.read_csv, validate_productos and validate_referential_integrity of the
\* chunk; a chunk left without rows is done.
ReadChunk ==
    /\ pc = "chunk"
    /\ ChunkFile.readable /\ ChunkFile.has_required_cols
    /\ LET df == FilterProductos(df_comercios, df_sucursales,
                                 validate_productos(ChunkFile.rows))
       IN  /\ df_producto' = df
           /\ IF Len(df) > 0
              THEN /\ pc' = "upsert_productos_master"
                   /\ UNCHANGED <<idx, chunk_log>>
              ELSE /\ chunk_log' = Append(chunk_log, Chunk("empty", "", 0))
                   /\ NextChunk
    /\ UNCHANGED <<archives, db, run, futures, collected, all_csv_paths,
                   df_comercios, df_sucursales, total_prices_loaded,
                   parquet_writer, writers_created, oplog, result, faults,
                   first_run, initial_db, crashed, unit_vars, pool_vars,
                   scraper_vars>>

\* pl.read_csv or validate_productos raises on the file of the chunk.
ReadChunkRaises ==
    /\ pc = "chunk"
    /\ ~(ChunkFile.readable /\ ChunkFile.has_required_cols)
    /\ CatchChunkFailure("read", 0)
    /\ UNCHANGED <<archives, db, run, futures, collected, all_csv_paths,
                   df_comercios, df_sucursales, df_producto,
                   total_prices_loaded, parquet_writer, writers_created,
                   oplog, faults, first_run, initial_db, crashed, unit_vars,
                   pool_vars,
                   scraper_vars>>

\* loader.upsert_productos_master(df_producto), committed
UpsertProductosMaster ==
    /\ pc = "upsert_productos_master"
    /\ \E batch \in UniqueByProducto(df_producto) :
          db' = [db EXCEPT !.productos_master = ExecuteManyProductos(@, batch)]
    /\ oplog' = Append(oplog,
                       Call("upsert_productos_master", "commit", df_producto))
    /\ pc' = "bulk_load_precios"
    /\ UNCHANGED <<archives, run, futures, collected, all_csv_paths,
                   df_comercios, df_sucursales, idx, df_producto,
                   total_prices_loaded, parquet_writer, writers_created,
                   chunk_log, result, faults, first_run, initial_db, crashed,
                   unit_vars, pool_vars,
                   scraper_vars>>

\* loader.upsert_productos_master raises
UpsertProductosMasterFails ==
    /\ pc = "upsert_productos_master"
    /\ MayFail
    /\ faults' = faults + 1
    /\ oplog' = Append(oplog,
                       Call("upsert_productos_master", "raise", df_producto))
    /\ CatchChunkFailure("upsert_productos_master", Len(df_producto))
    /\ UNCHANGED <<archives, db, run, futures, collected, all_csv_paths,
                   df_comercios, df_sucursales, df_producto,
                   total_prices_loaded, parquet_writer, writers_created,
                   first_run, initial_db, crashed, unit_vars, pool_vars,
                   scraper_vars>>

\* loader.bulk_load_precios(df_producto, scraped_at, target_date): the COPY
\* of every row of the frame, committed
BulkLoadPrecios ==
    /\ pc = "bulk_load_precios"
    /\ db' = [db EXCEPT !.precios = @ (+) CopyRows(df_producto, run, TargetDate)]
    /\ oplog' = Append(oplog, Call("bulk_load_precios", "commit", df_producto))
    /\ pc' = "append_to_parquet"
    /\ UNCHANGED <<archives, run, futures, collected, all_csv_paths,
                   df_comercios, df_sucursales, idx, df_producto,
                   total_prices_loaded, parquet_writer, writers_created,
                   chunk_log, result, faults, first_run, initial_db, crashed,
                   unit_vars, pool_vars,
                   scraper_vars>>

\* loader.bulk_load_precios raises (the COPY is rolled back)
BulkLoadPreciosFails ==
    /\ pc = "bulk_load_precios"
    /\ MayFail
    /\ faults' = faults + 1
    /\ oplog' = Append(oplog, Call("bulk_load_precios", "raise", df_producto))
    /\ CatchChunkFailure("bulk_load_precios", Len(df_producto))
    /\ UNCHANGED <<archives, db, run, futures, collected, all_csv_paths,
                   df_comercios, df_sucursales, df_producto,
                   total_prices_loaded, parquet_writer, writers_created,
                   first_run, initial_db, crashed, unit_vars, pool_vars,
                   scraper_vars>>

\* A ParquetWriter made at every append, whatever the loader holds.
CreateWriterAlways(writer, created) == created + 1

\* "if self._parquet_writer is None": a ParquetWriter is made only when the
\* loader holds none.  The number of writers the run has made after it.
CreateWriter(writer, created) ==
    IF writer = "None" THEN created + 1 ELSE created

\* loader.append_to_parquet(df_producto, target_date), the writer created
\* when there is none, and then total_prices_loaded += df_producto.height
AppendToParquet ==
    /\ pc = "append_to_parquet"
    /\ parquet_writer' = "open"
    /\ writers_created' = CreateWriter(parquet_writer, writers_created)
    /\ oplog' = Append(oplog, Call("append_to_parquet", "commit", df_producto))
    /\ total_prices_loaded' = total_prices_loaded + Len(df_producto)
    /\ chunk_log' = Append(chunk_log, Chunk("loaded", "", Len(df_producto)))
    /\ NextChunk
    /\ UNCHANGED <<archives, db, run, futures, collected, all_csv_paths,
                   df_comercios, df_sucursales, df_producto, result, faults,
                   first_run, initial_db, crashed, unit_vars, pool_vars,
                   scraper_vars>>

\* loader.append_to_parquet raises: before a writer was stored (the file
\* system or the writer could not be made) or in write_table
AppendToParquetFails ==
    /\ pc = "append_to_parquet"
    /\ MayFail
    /\ faults' = faults + 1
    /\ parquet_writer' \in {parquet_writer, "open"}
    /\ writers_created' = IF parquet_writer' = "open"
                          THEN CreateWriter(parquet_writer, writers_created)
                          ELSE writers_created
    /\ oplog' = Append(oplog, Call("append_to_parquet", "raise", df_producto))
    /\ CatchChunkFailure("append_to_parquet", Len(df_producto))
    /\ UNCHANGED <<archives, db, run, futures, collected, all_csv_paths,
                   df_comercios, df_sucursales, df_producto,
                   total_prices_loaded, first_run, initial_db, crashed,
                   unit_vars, pool_vars,
                   scraper_vars>>

\* ------------------------------------------------------------------------
\* process_daily_data, the end of the run
\* ------------------------------------------------------------------------

\* Whether a chunk of the run failed.
SomeChunkFailed == \E i \in 1..Len(chunk_log) : chunk_log[i].end = "failed"

\* loader.close_parquet_writer() and the last line of the log: "Pipeline
\* completed successfully ... Total prices loaded"; the function returns
\* None.
ClosePipeline ==
    /\ pc = "close"
    /\ parquet_writer' = "None"
    /\ pc' = "done"
    /\ result' = "completed successfully"
    /\ first_run' = IF run = 1
                    THEN <<[db |-> db, clean |-> ~SomeChunkFailed]>>
                    ELSE first_run
    /\ UNCHANGED <<archives, db, run, futures, collected, all_csv_paths,
                   df_comercios, df_sucursales, idx, df_producto,
                   total_prices_loaded, writers_created, oplog, chunk_log,
                   faults, initial_db, crashed, unit_vars, pool_vars,
                   scraper_vars>>

\* The writer's close() raises: nothing catches it.
ClosePipelineFails ==
    /\ pc = "close"
    /\ parquet_writer = "open"
    /\ MayFail
    /\ faults' = faults + 1
    /\ Raise
    /\ UNCHANGED <<archives, db, run, futures, collected, all_csv_paths,
                   df_comercios, df_sucursales, idx, df_producto,
                   total_prices_loaded, parquet_writer, writers_created,
                   oplog, chunk_log, first_run, initial_db, crashed,
                   unit_vars, pool_vars,
                   scraper_vars>>

\* The process dies in the chunk phase, after the partition was truncated:
\* before the first chunk, between two steps of a chunk, between two chunks
\* or after the last.  A step it dies in is a transaction that is rolled
\* back, which leaves the store as the step found it.
Crash ==
    /\ pc \in {"chunk", "upsert_productos_master", "bulk_load_precios",
               "append_to_parquet", "close"}
    /\ MayFail
    /\ faults' = faults + 1
    /\ pc' = "crashed"
    /\ result' = "crashed"
    /\ crashed' = crashed \cup {run}
    /\ UNCHANGED <<archives, db, run, futures, collected, all_csv_paths,
                   df_comercios, df_sucursales, idx, df_producto,
                   total_prices_loaded, parquet_writer, writers_created,
                   oplog, chunk_log, first_run, initial_db, unit_vars,
                   pool_vars,
                   scraper_vars>>

\* The pipeline is run again for the same date, on the same archives.
NextRun ==
    /\ pc \in {"done", "fatal", "crashed"}
    /\ run < MaxRuns
    /\ run' = run + 1
    /\ RunLocals
    /\ UNCHANGED <<archives, db, faults, first_run, initial_db, crashed,
                   unit_vars, pool_vars,
                   scraper_vars>>

Next ==
    \/ \E a \in Archives : ExtractZip(a)
    \/ \E a \in Archives : CollectResult(a)
    \/ \E a \in Archives : CollectFailure(a)
    \/ ExtractReturn
    \/ ValidateDimensions
    \/ ValidateDimensionsRaises
    \/ UpsertComercios
    \/ UpsertComerciosFails
    \/ UpsertSucursales
    \/ UpsertSucursalesFails
    \/ PreparePartition
    \/ PreparePartitionFails
    \/ ReadChunk
    \/ ReadChunkRaises
    \/ UpsertProductosMaster
    \/ UpsertProductosMasterFails
    \/ BulkLoadPrecios
    \/ BulkLoadPreciosFails
    \/ AppendToParquet
    \/ AppendToParquetFails
    \/ ClosePipeline
    \/ ClosePipelineFails
    \/ Crash
    \/ NextRun

Spec == Init /\ [][Next]_vars

\* ------------------------------------------------------------------------
\* The functions called on their own
\* ------------------------------------------------------------------------

FooterTextUpper ==
    <<"U", "L", "T", "I", "M", "A", " ", "A", "C", "T", "U", "A", "L", "I",
      "Z", "A", "C", "I", "O", "N">>

\* Rows of comercio.csv: the two of the archives; one whose id_bandera is no
\* number and one whose comercio_cuit is no number; a trailer row, and a
\* trailer row in capitals whose id_bandera is a number.
ComercioRows ==
    {ComercioA, ComercioAFloat, ComercioNoBandera,
     [ComercioA EXCEPT !.id_comercio = <<"3">>,
                       !.comercio_cuit = <<"a", "b", "c">>],
     ComercioFooter,
     [ComercioFooter EXCEPT !.id_comercio = FooterTextUpper,
                            !.id_bandera = <<"1">>]}

\* Rows of sucursales.csv: a branch, the same with float keys, one without
\* localidad, one without provincia, one whose id_sucursal is no number, and
\* two trailer rows whose other required fields are filled.
SucursalRows ==
    {SucursalA1, SucursalNoLocalidad,
     [id_comercio |-> <<"1", ".", "0">>, id_bandera |-> <<"1", ".", "0">>,
      id_sucursal |-> <<"1", ".", "0">>, sucursales_tipo |-> NullText,
      sucursales_localidad |-> <<"X">>, sucursales_provincia |-> <<"Y">>],
     [SucursalA1 EXCEPT !.id_sucursal = <<"3">>,
                        !.sucursales_provincia = NullText],
     [SucursalA1 EXCEPT !.id_sucursal = <<"a", "b", "c">>],
     [SucursalA1 EXCEPT !.id_comercio = FooterTextUpper],
     [SucursalA1 EXCEPT !.id_comercio = FooterText]}

\* Rows of productos.csv: priced products, one with float keys, one priced
\* zero and one below zero, one whose price is no number, and two trailer
\* rows with the text in id_producto and the other fields filled.
ProductoRows ==
    {ProductoP, ProductoPAlt, ProductoFree,
     [id_comercio |-> <<"1", ".", "0">>, id_bandera |-> <<"1", ".", "0">>,
      id_sucursal |-> <<"1", ".", "0">>, id_producto |-> <<"7", ".", "0">>,
      productos_ean |-> <<"1">>, productos_descripcion |-> <<"P">>,
      productos_precio_lista |-> <<"1", "0", "0", ".", "0">>],
     [ProductoP EXCEPT !.id_producto = <<"9">>,
                       !.productos_precio_lista = <<"-", "5">>],
     [ProductoP EXCEPT !.id_producto = <<"6">>,
                       !.productos_precio_lista = <<"a", "b", "c">>],
     [ProductoP EXCEPT !.id_producto = FooterTextUpper],
     [ProductoP EXCEPT !.id_producto = FooterText]}

\* The frames of at most MaxRows rows of a set.
Frames(rows) == UNION {[1..n -> rows] : n \in 0..MaxRows}

\* One function is about to be called on one input; no run is looked at.
\* An archive lists any of the three expected members and LEEME.txt;
\* extract_to holds nothing, or what earlier calls unpacked.
InitUnits ==
    /\ RunStarts([a \in Archives |->
                     Archive(File(<<>>), File(<<>>), File(<<>>))], EmptyStore)
    /\ NoPool
    /\ NoScraper
    /\ ret = <<>>
    /\ \/ \E df \in Frames(ComercioRows) :
              call = [fn |-> "validate_comercio", df |-> df]
       \/ \E df \in Frames(SucursalRows) :
              call = [fn |-> "validate_sucursales", df |-> df]
       \/ \E df \in Frames(ProductoRows) :
              call = [fn |-> "validate_productos", df |-> df]
       \/ \E df \in Frames(ProductoRows) :
              call = [fn |-> "upsert_productos_master",
                      df |-> validate_productos(df)]
       \/ \E stem \in Archives,
             names \in SUBSET (EXPECTED_FILES \cup {"LEEME.txt"}),
             disk \in {{}, {<<"sepa_1", "comercio.csv">>,
                            <<"sepa_2", "comercio.csv">>,
                            <<"sepa_2", "sucursales.csv">>,
                            <<"sepa_2", "productos.csv">>}} :
              call = [fn |-> "extract_zip",
                      zip |-> [stem |-> stem, namelist |-> names],
                      disk |-> disk]

CallValidateComercio ==
    /\ call.fn = "validate_comercio"
    /\ ret = <<>>
    /\ ret' = <<validate_comercio(call.df)>>
    /\ UNCHANGED <<call, run_vars, pool_vars,
                   scraper_vars>>

CallValidateSucursales ==
    /\ call.fn = "validate_sucursales"
    /\ ret = <<>>
    /\ ret' = <<validate_sucursales(call.df)>>
    /\ UNCHANGED <<call, run_vars, pool_vars,
                   scraper_vars>>

CallValidateProductos ==
    /\ call.fn = "validate_productos"
    /\ ret = <<>>
    /\ ret' = <<validate_productos(call.df)>>
    /\ UNCHANGED <<call, run_vars, pool_vars,
                   scraper_vars>>

\* loader.upsert_productos_master(df) over an empty table: the records it
\* hands to executemany and the table they leave.  A frame without rows
\* gives no records.
CallUpsertProductosMaster ==
    /\ call.fn = "upsert_productos_master"
    /\ ret = <<>>
    /\ \E records \in UniqueByProducto(call.df) :
           ret' = <<[records |-> records,
                     productos_master |-> ExecuteManyProductos({}, records)]>>
    /\ UNCHANGED <<call, run_vars, pool_vars,
                   scraper_vars>>

CallExtractZip ==
    /\ call.fn = "extract_zip"
    /\ ret = <<>>
    /\ ret' = <<extract_zip(call.zip, call.disk)>>
    /\ UNCHANGED <<call, run_vars, pool_vars,
                   scraper_vars>>

NextUnits ==
    \/ CallValidateComercio
    \/ CallValidateSucursales
    \/ CallValidateProductos
    \/ CallUpsertProductosMaster
    \/ CallExtractZip

SpecUnits == InitUnits /\ [][NextUnits]_vars

\* ------------------------------------------------------------------------
\* The scenario of two archives
\* ------------------------------------------------------------------------

\* Archive A: one Comercio, one Sucursal under it and one Producto priced
\* 100.0 at that Sucursal.
ArchiveA ==
    Archive(File(<<ComercioA>>), File(<<SucursalA1>>), File(<<ProductoP>>))

\* Archive B: one Sucursal under a Comercio that no archive declares; its
\* comercio.csv and productos.csv hold the header line only.
ArchiveB == Archive(File(<<>>), File(<<SucursalOrphan>>), File(<<>>))

\* The two archives under either pair of names, over a store no run has
\* written or one an earlier run for the date has.
InitScenario ==
    /\ \E a \in Archives, store \in {EmptyStore, EarlierStore} :
           RunStarts([x \in Archives |-> IF x = a THEN ArchiveA ELSE ArchiveB],
                     store)
    /\ NoCall
    /\ NoPool
    /\ NoScraper

\* The runs in which nothing of the outside world fails.
NextScenario ==
    \/ \E a \in Archives : ExtractZip(a)
    \/ \E a \in Archives : CollectResult(a)
    \/ ExtractReturn
    \/ ValidateDimensions
    \/ UpsertComercios
    \/ UpsertSucursales
    \/ PreparePartition
    \/ ReadChunk
    \/ UpsertProductosMaster
    \/ BulkLoadPrecios
    \/ AppendToParquet
    \/ ClosePipeline
    \/ NextRun

SpecScenario == InitScenario /\ [][NextScenario]_vars

\* ------------------------------------------------------------------------
\* SEPAExtractor.extract_all_zips: the process pool
\* ------------------------------------------------------------------------

\* ProcessPoolExecutor(max_workers=8).
max_workers == 8

\* The archives of the date directory are numbered 1..zip_files in the sorted
\* order of the glob; task t is extract_zip of archive t.  The tasks
\* 1..submitted are in the pool, 1..started were taken by a worker process
\* (the pool hands tasks out in the order of submission), finished holds
\* those that returned or raised.
Submitted == 1..submitted

Running == (1..started) \ finished

\* The file name of archive t, as its parts between the dots: the date
\* directory holds sepa_1.bak.zip, sepa_1.zip, sepa_2.bak.zip, sepa_2.zip and
\* so on, which all match "sepa_*.zip" and come in this order when sorted.
ZipPath(t) ==
    IF t % 2 = 1 THEN <<(t + 1) \div 2, "bak", "zip">> ELSE <<t \div 2, "zip">>

\* The name cut at its first dot.
StemWithoutSuffixes(zip_path) == <<Head(zip_path)>>

\* zip_path.stem: the file name without its last suffix; extract_zip unpacks
\* the archive into extract_to / zip_path.stem.
Stem(zip_path) == SubSeq(zip_path, 1, Len(zip_path) - 1)

\* A pool that starts a worker process for every task handed to it.
SpawnWorkerUnbounded(n) == n + 1

\* The pool starts a worker process when a task is handed to it, as long as
\* it has fewer than max_workers of them.
SpawnWorker(n) == IF n < max_workers THEN n + 1 ELSE n

InitPool ==
    /\ RunStarts([a \in Archives |->
                     Archive(File(<<>>), File(<<>>), File(<<>>))], EmptyStore)
    /\ NoCall
    /\ NoScraper
    /\ zip_files \in 0..MaxZips
    /\ submitted = 0
    /\ started = 0
    /\ finished = {}
    /\ processes = 0

\* executor.submit(extract_zip, zip_path, extract_dir) for the next zip_path
\* of zip_files.
Submit ==
    /\ submitted < zip_files
    /\ submitted' = submitted + 1
    /\ processes' = SpawnWorker(processes)
    /\ UNCHANGED <<zip_files, started, finished, run_vars, unit_vars,
                   scraper_vars>>

\* An idle worker process takes the oldest queued task.
StartTask ==
    /\ started < submitted
    /\ Cardinality(Running) < processes
    /\ started' = started + 1
    /\ UNCHANGED <<zip_files, submitted, finished, processes, run_vars,
                   unit_vars,
                   scraper_vars>>

\* extract_zip returns or raises in its worker process, which becomes idle.
FinishTask ==
    /\ \E t \in Running : finished' = finished \cup {t}
    /\ UNCHANGED <<zip_files, submitted, started, processes, run_vars,
                   unit_vars,
                   scraper_vars>>

NextPool ==
    \/ Submit
    \/ StartTask
    \/ FinishTask

SpecPool == InitPool /\ [][NextPool]_vars

\* ------------------------------------------------------------------------
\* SepaScraper
\* ------------------------------------------------------------------------

\* stop=stop_after_attempt(3) of the retry decorator
stop_after_attempt == 3

\* st_size / (1024 * 1024): the bytes of a MB
MB == 1048576

\* _storage_filename(): f"sepa_precios{self.fecha.hoy}.zip"
storage_filename(dia) == "sepa_precios" \o dia.hoy \o ".zip"

\* _parse_html(response): the first href of the page whose lower-cased text
\* holds target_filename (_scraped_filename(), f"sepa_{nombre_weekday}.zip",
\* as its characters), as it stands in the page; None when no href
\* holds it (None and the empty text are told apart by no caller: both are
\* falsy).
parse_html(page, dia) ==
    LET target_filename ==
            <<"s", "e", "p", "a", "_">> \o dia.nombre_weekday
                \o <<".", "z", "i", "p">>
        hits == {i \in 1..Len(page) :
                    Contains(ToLowercase(page[i]), target_filename)}
    IN  IF hits = {} THEN None
        ELSE page[CHOOSE i \in hits : \A j \in hits : i <= j]

\* The size of the file compared with the minimum as a number of bytes.
TooSmallInBytes(file_size_bytes, min_mb) == file_size_bytes < min_mb

\* file_size_mb < min_file_size_mb, file_size_mb = file_size_bytes / (1024 *
\* 1024): the division by a power of two is exact, so the test is the one
\* on the bytes.
TooSmall(file_size_bytes, min_mb) == file_size_bytes < min_mb * MB

\* _download_data(download_link, min_file_size_mb) on the directory given
\* (a function from the names of its files to their sizes), when the GET
\* ends as `outcome` says and `size` bytes reach the file: what it returns,
\* the directory it leaves and the requests it made.
download_data(link, min_mb, dir, dia, outcome, size) ==
    LET file_name == storage_filename(dia)
        written == [n \in DOMAIN dir \cup {file_name} |->
                       IF n = file_name THEN size ELSE dir[n]]
        unlinked == [n \in DOMAIN dir \ {file_name} |-> dir[n]]
    IN  IF link = None
        THEN [result |-> FALSE, data_dir |-> dir, requests |-> 0]
        ELSE IF outcome \in {"RequestError", "HTTPStatusError"}
        THEN [result |-> FALSE, data_dir |-> dir, requests |-> 1]
        ELSE IF outcome = "stream breaks"
        THEN [result |-> FALSE, data_dir |-> written, requests |-> 1]
        ELSE IF TooSmall(size, min_mb)
        THEN [result |-> FALSE, data_dir |-> unlinked, requests |-> 1]
        ELSE [result |-> TRUE, data_dir |-> written, requests |-> 1]

\* A scraper made on a day, over a data directory that is empty or holds
\* the file an earlier download of the day stored, and one of its methods
\* about to be called: hurtar_datos, _connect_to_source, or _download_data
\* with a link or with none.
InitScraper ==
    /\ RunStarts([a \in Archives |->
                     Archive(File(<<>>), File(<<>>), File(<<>>))], EmptyStore)
    /\ NoCall
    /\ NoPool
    /\ fecha \in {[hoy |-> "2025-10-23", nombre_weekday |-> <<"j", "u", "e">>],
                  [hoy |-> "2025-10-24", nombre_weekday |-> <<"v", "i", "e">>]}
    /\ data_dir \in {<<>>, [n \in {storage_filename(fecha)} |-> 200 * MB]}
    /\ attempts = <<>>
    /\ response = <<>>
    /\ requests = 0
    /\ steps = <<>>
    /\ returned = <<>>
    /\ \/ /\ \E m \in {0, 1, 150} :
                /\ entry = [fn |-> "hurtar_datos", min_file_size_mb |-> m]
                /\ min_file_size_mb = m
          /\ spc = "connect"
          /\ download_link = None
       \/ /\ entry = [fn |-> "_connect_to_source"]
          /\ spc = "connect"
          /\ download_link = None
          /\ min_file_size_mb = 0
       \/ /\ \E m \in {0, 1, 150}, link \in {<<>>, <<"/", "x", ".", "z", "i", "p">>} :
                /\ entry = [fn |-> "_download_data", download_link |-> link,
                            min_file_size_mb |-> m]
                /\ download_link = link
                /\ min_file_size_mb = m
          /\ spc = "download"

\* One attempt of _connect_to_source: client.get(url) and raise_for_status.
\* A response is returned; an httpx.RequestError or an httpx.HTTPStatusError
\* is caught and None is returned; any other exception leaves the function,
\* and the retry decorator calls it again until the third attempt, after
\* which it raises RetryError.  A response is the hrefs of the links of its
\* page; `none` tells the None returned in its place.
ClientGet ==
    /\ spc = "connect"
    /\ \E outcome \in {"ok", "RequestError", "HTTPStatusError", "Exception"},
          page \in UNION {[1..n -> {<<"/", "s", "e", "p", "a", "_", "j", "u", "e", ".", "z", "i", "p">>,
                                    <<"/", "S", "E", "P", "A", "_", "V", "I", "E", ".", "Z", "I", "P">>,
                                    <<"/", "a", "y", "u", "d", "a">>}] : n \in 0..2} :
          /\ attempts' = Append(attempts, outcome)
          /\ steps' = IF attempts = <<>>
                      THEN Append(steps, [fn |-> "_connect_to_source"])
                      ELSE steps
          /\ IF outcome = "Exception"
             THEN /\ response' = response
                  /\ returned' = returned
                  /\ spc' = IF Len(attempts) + 1 < stop_after_attempt
                            THEN "connect" ELSE "raised"
             ELSE /\ response' = <<[none |-> outcome # "ok",
                                    links |-> IF outcome = "ok" THEN page
                                              ELSE <<>>]>>
                  /\ IF entry.fn = "_connect_to_source"
                     THEN spc' = "returned" /\ returned' = response'
                     ELSE spc' = "parse" /\ returned' = returned
    /\ UNCHANGED <<entry, fecha, download_link, min_file_size_mb, data_dir,
                   requests, run_vars, unit_vars, pool_vars>>

\* hurtar_datos goes on to _download_data though it has no link.
ParseThenDownloadAnyway ==
    /\ spc = "parse"
    /\ IF response[1].none
       THEN /\ returned' = <<FALSE>>
            /\ spc' = "returned"
            /\ UNCHANGED <<download_link, steps>>
       ELSE /\ download_link' = parse_html(response[1].links, fecha)
            /\ steps' = Append(steps, [fn |-> "_parse_html"])
            /\ spc' = "download"
            /\ returned' = returned
    /\ UNCHANGED <<entry, fecha, attempts, response, min_file_size_mb,
                   data_dir, requests, run_vars, unit_vars, pool_vars>>

\* hurtar_datos after _connect_to_source returned: False when there is no
\* response; else _parse_html, and False when it finds no link.
Parse ==
    /\ spc = "parse"
    /\ IF response[1].none
       THEN /\ returned' = <<FALSE>>
            /\ spc' = "returned"
            /\ UNCHANGED <<download_link, steps>>
       ELSE /\ download_link' = parse_html(response[1].links, fecha)
            /\ steps' = Append(steps, [fn |-> "_parse_html"])
            /\ IF download_link' = None
               THEN returned' = <<FALSE>> /\ spc' = "returned"
               ELSE returned' = returned /\ spc' = "download"
    /\ UNCHANGED <<entry, fecha, attempts, response, min_file_size_mb,
                   data_dir, requests, run_vars, unit_vars, pool_vars>>

\* _download_data(download_link, min_file_size_mb), called by hurtar_datos
\* or on its own; what it returns is what hurtar_datos returns.
DownloadData ==
    /\ spc = "download"
    /\ \E outcome \in {"RequestError", "HTTPStatusError", "stream breaks",
                       "complete"},
          size \in {0, 172, MB - 1, MB, 150 * MB - 1, 150 * MB, 200 * MB} :
          LET r == download_data(download_link, min_file_size_mb, data_dir,
                                 fecha, outcome, size)
          IN  /\ returned' = <<r.result>>
              /\ data_dir' = r.data_dir
              /\ requests' = requests + r.requests
              /\ steps' = Append(steps,
                     [fn |-> "_download_data", download_link |-> download_link,
                      min_file_size_mb |-> min_file_size_mb,
                      outcome |-> IF r.requests = 0 THEN "no request" ELSE outcome,
                      size |-> size, result |-> r.result])
    /\ spc' = "returned"
    /\ UNCHANGED <<entry, fecha, attempts, response, download_link,
                   min_file_size_mb, run_vars, unit_vars, pool_vars>>

NextScraper ==
    \/ ClientGet
    \/ Parse
    \/ DownloadData

SpecScraper == InitScraper /\ [][NextScraper]_vars

\* ------------------------------------------------------------------------
\* What the claims speak of
\* ------------------------------------------------------------------------

\* The calls of a loader method in the run so far.
Calls(op) == {i \in 1..Len(oplog) : oplog[i].op = op}

\* The calls of a loader method that committed.
Commits(op) == {i \in Calls(op) : oplog[i].end = "commit"}

\* The rows of the productos member of an archive after validate_productos.
ValidatedProductos(a) == validate_productos(archives[a].productos.rows)

\* The sum of the bags of a sequence.
RECURSIVE BagSum(_)
BagSum(bags) ==
    IF bags = <<>> THEN EmptyBag ELSE Head(bags) (+) BagSum(Tail(bags))

\* The fact rows the bulk loads of the run committed.
RunCommitted ==
    LET loads == SelectSeq(oplog, LAMBDA c : c.op = "bulk_load_precios"
                                             /\ c.end = "commit")
    IN  BagSum([i \in 1..Len(loads) |-> CopyRows(loads[i].rows, run, TargetDate)])

\* C1 (as claimed): every Sucursal row handed to upsert_sucursales has its
\* (id_comercio, id_bandera) in the validated Comercio set handed to
\* upsert_comercios in the same run, also when that set is empty.
C1_SucursalesResolveToComercios ==
    \A i \in Calls("upsert_sucursales") :
        \A r \in Range(oplog[i].rows) :
            \E c \in UNION {Range(oplog[j].rows) : j \in Calls("upsert_comercios")} :
                c.id_comercio = r.id_comercio /\ c.id_bandera = r.id_bandera

\* C2 (as claimed): every row handed to bulk_load_precios has its
\* (id_comercio, id_bandera, id_sucursal) in the integrity-filtered Sucursal
\* set of the run, also when that set is empty.
C2_PreciosResolveToSucursales ==
    \A i \in Calls("bulk_load_precios") :
        \A r \in Range(oplog[i].rows) :
            <<r.id_comercio, r.id_bandera, r.id_sucursal>>
                \in SucursalKeys(df_sucursales)

\* C2 (amended): when the integrity-filtered Sucursal set of the run has
\* rows, every row handed to bulk_load_precios has its (id_comercio,
\* id_bandera, id_sucursal) in it; when that set is empty, the validated rows
\* of the chunk are handed to bulk_load_precios unfiltered.
C2_PreciosResolveUnlessNoSucursal ==
    \A i \in Calls("bulk_load_precios") :
        IF df_sucursales # <<>>
        THEN \A r \in Range(oplog[i].rows) :
                 <<r.id_comercio, r.id_bandera, r.id_sucursal>>
                     \in SucursalKeys(df_sucursales)
        ELSE oplog[i].rows = ValidatedProductos(all_csv_paths[oplog[i].chunk])

\* C2, its case: a chunk was bulk-loaded after the filter had dropped one of
\* its validated rows, the Sucursal set having rows.
C2_Witness ==
    \E i \in Commits("bulk_load_precios") :
        /\ df_sucursales # <<>>
        /\ Len(oplog[i].rows) < Len(ValidatedProductos(all_csv_paths[oplog[i].chunk]))

\* A fact row without its capture timestamp.
Observation(r) ==
    [id_comercio |-> r.id_comercio, id_bandera |-> r.id_bandera,
     id_sucursal |-> r.id_sucursal, id_producto |-> r.id_producto,
     productos_precio_lista |-> r.productos_precio_lista,
     productos_descripcion |-> r.productos_descripcion,
     fecha_vigencia |-> r.fecha_vigencia]

\* The fact rows of a partition with their counts, the capture timestamp
\* left out.
Observations(precios) ==
    {<<Observation(r), precios[r]>> : r \in BagToSet(precios)}

\* No key appears twice in the three master tables.
KeysOnce(store) ==
    /\ \A e, f \in store.comercios :
          e.id_comercio = f.id_comercio /\ e.id_bandera = f.id_bandera => e = f
    /\ \A e, f \in store.sucursales :
          (/\ e.id_comercio = f.id_comercio
           /\ e.id_bandera = f.id_bandera
           /\ e.id_sucursal = f.id_sucursal) => e = f
    /\ \A e, f \in store.productos_master : e.id_producto = f.id_producto => e = f

\* C3 (as claimed): a second run for the same date on the same archives
\* leaves the relational state the first run left: the same fact rows with
\* the same counts (but for the capture timestamp) and the same Comercio,
\* Sucursal and Producto master rows, no key twice.  Stated for two runs in
\* which nothing failed.
C3_SecondRunLeavesSameState ==
    (/\ run = 2
     /\ pc = "done"
     /\ faults = 0
     /\ ~SomeChunkFailed
     /\ first_run # <<>>
     /\ first_run[1].clean)
    => /\ Observations(db.precios) = Observations(first_run[1].db.precios)
       /\ db.comercios = first_run[1].db.comercios
       /\ db.sucursales = first_run[1].db.sucursales
       /\ db.productos_master = first_run[1].db.productos_master
       /\ KeysOnce(db)

\* C4: once prepare_precios_partition has returned in a run, the partition
\* of the date holds the rows the bulk loads of that run committed and no
\* other row: none of an earlier run is left.
C4_PartitionHoldsOnlyThisRun ==
    Commits("prepare_precios_partition") # {}
    => /\ db.precios = RunCommitted
       /\ \A r \in BagToSet(db.precios) :
             r.scraped_at = run /\ r.fecha_vigencia = TargetDate

\* C4, its case: the partition was prepared and loaded by a second run, the
\* first run having left rows in it.
C4_Witness ==
    /\ run = 2
    /\ first_run # <<>>
    /\ first_run[1].db.precios # EmptyBag
    /\ db.precios # EmptyBag
    /\ Commits("prepare_precios_partition") # {}
    /\ Commits("bulk_load_precios") # {}

\* The frame a chunk has after validation and the referential filter.
ChunkFrame(a) ==
    FilterProductos(df_comercios, df_sucursales, ValidatedProductos(a))

\* Whether pl.read_csv and validate_productos accept the productos member.
ChunkReads(a) ==
    archives[a].productos.readable /\ archives[a].productos.has_required_cols

\* C5: a failure of one chunk, at whatever step, is caught: the run is never
\* left from inside the loop (once the partition is prepared the run ends
\* only after the loop has gone through every chunk), every chunk of the run
\* is processed in its turn, and a chunk that has rows and did not itself
\* fail is loaded into the partition.
C5_ChunkFailureIsContained ==
    /\ (Commits("prepare_precios_partition") # {} /\ pc \in {"fatal", "close", "done"})
       => /\ idx = Len(all_csv_paths) + 1
          /\ Len(chunk_log) = Len(all_csv_paths)
    /\ \A i \in 1..Len(chunk_log) :
          LET c == chunk_log[i]
          IN  /\ c.archive = all_csv_paths[i]
              /\ c.end = "failed" => c.step # ""
              /\ c.step = "read" <=> ~ChunkReads(c.archive)
              /\ (c.step = "" /\ ChunkFrame(c.archive) # <<>>)
                 => /\ c.end = "loaded"
                    /\ CopyRows(ChunkFrame(c.archive), run, TargetDate)
                           \sqsubseteq db.precios

\* C5, its case: the run completed, a chunk failed and a later chunk was
\* loaded.
C5_Witness ==
    /\ pc = "done"
    /\ \E i, j \in 1..Len(chunk_log) :
          /\ i < j
          /\ chunk_log[i].end = "failed"
          /\ chunk_log[j].end = "loaded"

\* C6: when upsert_comercios, upsert_sucursales or prepare_precios_partition
\* fails, the run is aborted, and it makes no productos_master upsert, no
\* bulk load and no archive append.
C6_DimensionFailureIsFatal ==
    (\E i \in 1..Len(oplog) : /\ oplog[i].op \in {"upsert_comercios", "upsert_sucursales",
                                  "prepare_precios_partition"}
        /\ oplog[i].end = "raise")
    => /\ pc = "fatal"
       /\ result = "raised"
       /\ \A j \in 1..Len(oplog) : oplog[j].op \notin {"upsert_productos_master", "bulk_load_precios",
                                  "append_to_parquet"}
       /\ chunk_log = <<>>

\* C6, its case: prepare_precios_partition failed after both dimension
\* upserts had committed.
C6_Witness ==
    /\ Commits("upsert_comercios") # {}
    /\ Commits("upsert_sucursales") # {}
    /\ \E i \in Calls("prepare_precios_partition") : oplog[i].end = "raise"

\* C7 (as claimed): before the first bulk load of a run begins, the Comercio
\* upsert has committed, then the Sucursal upsert has committed, then the
\* partition was created and truncated and that has committed.
C7_UpsertsCommitThenTruncateThenLoad ==
    \A i \in Calls("bulk_load_precios") :
        \E l, k, j \in 1..Len(oplog) :
            /\ l < k /\ k < j /\ j < i
            /\ oplog[l].op = "upsert_comercios" /\ oplog[l].end = "commit"
            /\ oplog[k].op = "upsert_sucursales" /\ oplog[k].end = "commit"
            /\ oplog[j].op = "prepare_precios_partition" /\ oplog[j].end = "commit"

\* C7 (amended): before the first bulk load of a run begins, the Comercio
\* upsert has committed, then the Sucursal upsert has returned (committed
\* when the Sucursal frame has rows, without a transaction when it is empty),
\* then the partition was created and truncated and that has committed; no
\* bulk load precedes the truncation.
C7_UpsertsReturnThenTruncateThenLoad ==
    \A i \in Calls("bulk_load_precios") :
        \E l, k, j \in 1..Len(oplog) :
            /\ l < k /\ k < j /\ j < i
            /\ oplog[l].op = "upsert_comercios" /\ oplog[l].end = "commit"
            /\ oplog[k].op = "upsert_sucursales"
            /\ oplog[k].end = (IF oplog[k].rows = <<>> THEN "noop" ELSE "commit")
            /\ oplog[j].op = "prepare_precios_partition" /\ oplog[j].end = "commit"

\* C7, its case: a bulk load began in a run whose Sucursal upsert committed
\* rows.
C7_Witness ==
    /\ Calls("bulk_load_precios") # {}
    /\ Commits("upsert_sucursales") # {}

\* C8 (as claimed): when the run completes, the total of prices it reports
\* is the number of fact rows it committed to the partition of the date.
C8_TotalIsRowsCommitted ==
    pc = "done"
    => /\ total_prices_loaded = BagCardinality(RunCommitted)
       /\ total_prices_loaded = BagCardinality(db.precios)

\* C9 (as claimed): a run in which a chunk failed is not reported as a full
\* success.
C9_FailedChunkIsNotFullSuccess ==
    result = "completed successfully" => ~SomeChunkFailed

\* C10: when the extraction of an archive fails, extract_all_zips does not
\* return: the paths of the archives that were extracted are not handed to
\* the run, which makes no loader call and processes no chunk.
C10_ExtractionFailureAbortsRun ==
    (\E a \in Archives : ~archives[a].has_expected_files)
    => /\ pc \in {"extract", "fatal"}
       /\ all_csv_paths = <<>>
       /\ oplog = <<>>
       /\ chunk_log = <<>>
       /\ result # "completed successfully"
       /\ (\A a \in Archives : futures[a] # "pending") /\ pc = "extract"
          => ENABLED (\E a \in Archives : CollectFailure(a))

\* C10, its case: the run was aborted by a failed extraction after the paths
\* of another archive had been collected.
C10_Witness ==
    /\ pc = "fatal"
    /\ \E a \in Archives : futures[a] = "raised"
    /\ collected # <<>>
    /\ all_csv_paths = <<>>

\* C11: extract_zip, on an archive whose namelist lacks some of comercio.csv,
\* sucursales.csv and productos.csv, raises an error that names the archive
\* and exactly the members it lacks, and leaves the disk as it found it; on
\* an archive that lists the three it returns a mapping whose keys are
\* exactly comercio, sucursales and productos, each to the file of that name
\* in the directory of the archive, which the call has written.
C11_ExtractZipChecksMembersFirst ==
    (call.fn = "extract_zip" /\ ret # <<>>) =>
        LET r == ret[1]
            lacking == {n \in {"comercio.csv", "sucursales.csv", "productos.csv"} :
                           n \notin call.zip.namelist}
        IN  IF lacking # {}
            THEN /\ r.raised
                 /\ r.name = call.zip.stem
                 /\ r.missing_files = lacking
                 /\ r.disk = call.disk
            ELSE /\ ~r.raised
                 /\ DOMAIN r.csv_paths = {"comercio", "sucursales", "productos"}
                 /\ r.csv_paths["comercio"] = <<call.zip.stem, "comercio.csv">>
                 /\ r.csv_paths["sucursales"] = <<call.zip.stem, "sucursales.csv">>
                 /\ r.csv_paths["productos"] = <<call.zip.stem, "productos.csv">>
                 /\ \A t \in DOMAIN r.csv_paths : r.csv_paths[t] \in r.disk
                 /\ \A f \in r.disk \ call.disk : f[1] = call.zip.stem

\* C11, its case: extract_zip raised on an archive that lacks two of the
\* three members and lists another file, the disk holding earlier files.
C11_Witness ==
    /\ (call.fn = "extract_zip" /\ ret # <<>>)
    /\ ret[1].raised
    /\ Cardinality(ret[1].missing_files) = 2
    /\ "LEEME.txt" \in call.zip.namelist
    /\ call.disk # {}

\* Whether a member file of the archive can be read and lacks a required
\* column.
LacksColumns(a, member) ==
    archives[a][member].readable /\ ~archives[a][member].has_required_cols

\* C12 (as claimed): a member file that lacks a required column, be it the
\* comercio, the sucursales or the productos member of its archive, does not
\* abort the run.  Stated for runs in which every archive was extracted,
\* every member file could be read and nothing of the outside world failed.
C12_MissingColumnsDoNotAbortTheRun ==
    (/\ \A a \in Archives : archives[a].has_expected_files
     /\ \A a \in Archives, member \in {"comercio", "sucursales", "productos"} :
           archives[a][member].readable
     /\ faults = 0
     /\ \E a \in Archives, member \in {"comercio", "sucursales", "productos"} :
           LacksColumns(a, member))
    => result # "raised"

HoldsMarker(v) == v # NullText /\ Contains(ToLowercase(v), FooterMarker)

WithoutDotZero(v) ==
    IF v # NullText /\ Len(v) > 2 /\ SubSeq(v, Len(v) - 1, Len(v)) = <<".", "0">>
    THEN SubSeq(v, 1, Len(v) - 2)
    ELSE v

\* The frame with the identity columns of every row written without ".0".
WithPlainIds(fn, df) ==
    [i \in DOMAIN df |->
        IF fn = "validate_comercio"
        THEN [df[i] EXCEPT !.id_comercio = WithoutDotZero(@),
                           !.id_bandera = WithoutDotZero(@)]
        ELSE IF fn = "validate_sucursales"
        THEN [df[i] EXCEPT !.id_comercio = WithoutDotZero(@),
                           !.id_bandera = WithoutDotZero(@),
                           !.id_sucursal = WithoutDotZero(@)]
        ELSE [df[i] EXCEPT !.id_comercio = WithoutDotZero(@),
                           !.id_bandera = WithoutDotZero(@),
                           !.id_sucursal = WithoutDotZero(@),
                           !.id_producto = WithoutDotZero(@)]]

\* The validator of the name applied to the frame.
Validate(fn, df) ==
    IF fn = "validate_comercio" THEN validate_comercio(df)
    ELSE IF fn = "validate_sucursales" THEN validate_sucursales(df)
    ELSE validate_productos(df)

\* C15 (as claimed): in every validator an identity column that holds "1.0"
\* validates to the key value "1" validates to, so a frame and the same
\* frame with its identities written without ".0" validate to the same rows;
\* and a text that is no number in a numerically cast column gives null
\* without an error, the row being dropped only if the column is required
\* (comercio_cuit is not, id_bandera is).
C15_FloatIdsValidateAsPlainIds ==
    (call.fn \in {"validate_comercio", "validate_sucursales",
                  "validate_productos"} /\ ret # <<>>) =>
        /\ ret[1] = Validate(call.fn, WithPlainIds(call.fn, call.df))
        /\ call.fn = "validate_comercio" =>
              \A i \in DOMAIN call.df :
                  /\ (/\ call.df[i].comercio_cuit = <<"a", "b", "c">>
                      /\ call.df[i].id_bandera = <<"1">>
                      /\ ~HoldsMarker(call.df[i].id_comercio))
                     => \E r \in Range(ret[1]) :
                            /\ r.id_comercio = call.df[i].id_comercio
                            /\ r.comercio_cuit = None
                  /\ call.df[i].id_bandera = <<"a", "b", "c">>
                     => \A r \in Range(ret[1]) :
                            r.id_comercio # call.df[i].id_comercio

\* C16: validate_productos drops no row for its price being zero or below: a
\* row it is given whose essential fields are not null after the casts, and
\* whose id_producto does not hold the trailer marker, is among the rows it
\* returns, with its price, also when that price is <= 0.
C16_NonPositivePricesAreKept ==
    (call.fn = "validate_productos" /\ ret # <<>>) =>
        \A i \in DOMAIN call.df :
            LET r == CastProductoRow(call.df[i])
            IN  (/\ r.id_comercio # NullText
                 /\ r.id_bandera # None
                 /\ r.id_sucursal # None
                 /\ r.id_producto # None
                 /\ r.productos_descripcion # NullText
                 /\ r.productos_precio_lista # None
                 /\ NonPositive(r.productos_precio_lista))
                => \E j \in DOMAIN ret[1] : ret[1][j] = r

\* C16, its case: validate_productos was given a row priced zero and a row
\* priced below zero and returned both.
C16_Witness ==
    /\ call.fn = "validate_productos"
    /\ ret # <<>>
    /\ \E i, j \in DOMAIN call.df :
          /\ call.df[i].productos_precio_lista = <<"0">>
          /\ call.df[j].productos_precio_lista = <<"-", "5">>
    /\ \E i, j \in DOMAIN ret[1] :
          /\ ret[1][i].productos_precio_lista = Some([neg |-> FALSE, int |-> 0, frac |-> <<>>])
          /\ ret[1][j].productos_precio_lista = Some([neg |-> TRUE, int |-> 5, frac |-> <<>>])

\* The chunk loop of a run in which nothing fails but what the files make
\* fail, from each of the stores given: the stores it can leave.
RECURSIVE LoadChunks(_, _, _, _)
LoadChunks(stores, paths, comercios, sucursales) ==
    IF paths = <<>> THEN stores
    ELSE LET df == IF ChunkReads(Head(paths))
                   THEN FilterProductos(comercios, sucursales,
                                        ValidatedProductos(Head(paths)))
                   ELSE <<>>
             loaded ==
                 IF df = <<>> THEN stores
                 ELSE {[st EXCEPT
                          !.productos_master = ExecuteManyProductos(@, batch),
                          !.precios = @ (+) CopyRows(df, 0, TargetDate)] :
                       st \in stores, batch \in UniqueByProducto(df)}
         IN  LoadChunks(loaded, Tail(paths), comercios, sucursales)

\* The stores a single run of process_daily_data that nothing interrupts can
\* leave when it starts from the store given, over the orders as_completed
\* and unique() can give; none when the run cannot complete.
UninterruptedRuns(store) ==
    IF \E a \in Archives : ~archives[a].has_expected_files THEN {}
    ELSE UNION {
        LET member(m) ==
                SelectSeq([i \in 1..Len(paths) |-> archives[paths[i]][m]],
                          LAMBDA f : f.readable)
        IN  IF FramesRaise(member("comercio")) \/ FramesRaise(member("sucursales"))
            THEN {}
            ELSE UNION {
                LET comercios == validate_comercio(c)
                    sucursales == FilterSucursales(comercios, validate_sucursales(s))
                IN  LoadChunks(
                        {[store EXCEPT
                            !.comercios = ExecuteManyComercios(@, comercios),
                            !.sucursales = ExecuteManySucursales(@, sucursales),
                            !.precios = EmptyBag]},
                        paths, comercios, sucursales) :
                c \in Unique(ConcatRows(member("comercio"))),
                s \in Unique(ConcatRows(member("sucursales")))} :
        paths \in Orderings(Archives)}

\* Whether the two stores hold the same dimension rows and the same fact
\* rows with the same counts, the capture timestamp left out.
SameState(st, other) ==
    /\ st.comercios = other.comercios
    /\ st.sucursales = other.sucursales
    /\ st.productos_master = other.productos_master
    /\ Observations(st.precios) = Observations(other.precios)

\* C17 (as claimed): when the first run for the date crashed after the
\* partition was truncated, and the second run on the same archives
\* completed with nothing failing, the store is in a state a single
\* uninterrupted run from the store the first run found can leave.
C17_RerunAfterCrashEqualsSingleRun ==
    (/\ run = 2
     /\ pc = "done"
     /\ crashed = {1}
     /\ faults = 1)
    => \E st \in UninterruptedRuns(initial_db) : SameState(db, st)

\* C18: during extract_all_zips one extraction task is submitted per archive
\* of the date directory (never more tasks than archives, a task per archive
\* once all were submitted, every finished task one of them), and at no time
\* are more than 8 extractions running, however many archives there are.
C18_OneTaskPerArchiveAtMostEightRunning ==
    /\ submitted <= zip_files
    /\ Running \cup finished \subseteq Submitted
    /\ Submitted \subseteq 1..zip_files
    /\ Cardinality(Running) <= 8
    /\ (finished = 1..zip_files => submitted = zip_files)

\* C18 witness: more than 8 archives, 8 extractions running and a further
\* task waiting in the pool.
C18_Witness ==
    /\ zip_files > 8
    /\ Cardinality(Running) = 8
    /\ started < submitted

\* C19: in a run the loader makes at most one ParquetWriter; it makes none
\* before append_to_parquet is called, and the calls are made for chunks with
\* remaining rows only; every append that went through wrote to that one
\* writer; and when the run has completed the loader holds no writer, also
\* when none was ever made.
C19_OneLazyWriterClosedAtTheEnd ==
    /\ writers_created <= 1
    /\ parquet_writer = "open" => writers_created = 1
    /\ Calls("append_to_parquet") = {} =>
           writers_created = 0 /\ parquet_writer = "None"
    /\ \A i \in Calls("append_to_parquet") : Len(oplog[i].rows) > 0
    /\ Commits("append_to_parquet") # {} => writers_created = 1
    /\ pc = "done" => parquet_writer = "None"

\* C19 witness: a run that completed after two chunks were appended, both
\* to the one writer the first of them made.
C19_Witness ==
    /\ pc = "done"
    /\ Cardinality(Commits("append_to_parquet")) = 2
    /\ writers_created = 1
    /\ parquet_writer = "None"

\* C20: a run on archive A (Comercio 1/1, Sucursal 1 under it, Producto 7
\* priced 100.0 at that Sucursal) and archive B (a Sucursal under the
\* undeclared Comercio 2/1) for date D, once completed, has persisted the
\* Comercio and the Sucursal of A and not the Sucursal of B, which was the
\* single orphan dropped; the partition of D holds exactly one Precio row,
\* that of Producto 7 at 100.0; and the total reported is 1.
C20_TwoArchiveScenario ==
    pc = "done" =>
        /\ {<<r.id_comercio, r.id_bandera>> : r \in db.comercios}
               = {<< <<"1">>, Some(1) >>}
        /\ {<<r.id_comercio, r.id_bandera, r.id_sucursal>> : r \in db.sucursales}
               = {<< <<"1">>, Some(1), Some(1) >>}
        /\ \A s \in Unique(ConcatRows(FramesRead("sucursales"))) :
               /\ OrphanedSucursales(df_comercios, validate_sucursales(s))
                      = {<< <<"2">>, Some(1) >>}
               /\ Len(validate_sucursales(s)) - Len(df_sucursales) = 1
        /\ Cardinality(BagToSet(db.precios)) = 1
        /\ \A p \in BagToSet(db.precios) :
               /\ CopiesIn(p, db.precios) = 1
               /\ p.id_comercio = <<"1">>
               /\ p.id_bandera = Some(1)
               /\ p.id_sucursal = Some(1)
               /\ p.id_producto = Some(7)
               /\ p.productos_precio_lista
                      = Some([neg |-> FALSE, int |-> 100, frac |-> <<>>])
               /\ p.fecha_vigencia = TargetDate
        /\ total_prices_loaded = 1

\* C20 witness: the run completed with archive B processed before archive
\* A, over a store that held a stale Precio row for the date.
C20_Witness ==
    /\ pc = "done"
    /\ archives[all_csv_paths[1]] = ArchiveB
    /\ archives[all_csv_paths[2]] = ArchiveA
    /\ initial_db = EarlierStore
    /\ total_prices_loaded = 1

\* C21: the records upsert_productos_master hands to productos_master for a
\* chunk hold at most one record of an id_producto, and a record of every
\* id_producto of the chunk's rows, each taken from a row of the chunk.
C21_OneRecordPerProducto ==
    (call.fn = "upsert_productos_master" /\ ret # <<>>) =>
        /\ \A m, n \in ret[1].records :
               m.id_producto = n.id_producto => m = n
        /\ {m.id_producto : m \in ret[1].records}
               = {call.df[i].id_producto : i \in 1..Len(call.df)}
        /\ \A m \in ret[1].records :
               \E i \in 1..Len(call.df) :
                   /\ m.id_producto = call.df[i].id_producto
                   /\ m.productos_descripcion = call.df[i].productos_descripcion

\* C21 witness: a chunk that holds one id_producto under two descriptions
\* and another id_producto, upserted as two records.
C21_Witness ==
    /\ call.fn = "upsert_productos_master"
    /\ ret # <<>>
    /\ \E i, j \in 1..Len(call.df) :
           /\ call.df[i].id_producto = call.df[j].id_producto
           /\ call.df[i].productos_descripcion # call.df[j].productos_descripcion
    /\ Cardinality(ret[1].records) = 2

\* C26: no row of the precios partition has a productos_precio_lista of
\* zero or less: the rows validate_productos keeps with such a price are not
\* bulk-loaded.
C26_NoNonPositivePriceIsLoaded ==
    \A p \in BagToSet(db.precios) :
        p.productos_precio_lista # None => ~NonPositive(p.productos_precio_lista)

\* C27: the loader calls of a chunk are made in the order productos_master
\* upsert, fact bulk load, archive append, each only after the one before it
\* committed for the same chunk, so that a call that raised is the last of
\* its chunk; and the total is the number of rows of the chunks whose
\* archive append went through.
C27_ChunkStepsInOrder ==
    /\ \A i \in 1..Len(oplog) :
          /\ oplog[i].op = "upsert_productos_master" =>
                 \A j \in 1..(i - 1) : oplog[j].chunk # oplog[i].chunk
          /\ oplog[i].op = "bulk_load_precios" =>
                 /\ i > 1
                 /\ oplog[i - 1].op = "upsert_productos_master"
                 /\ oplog[i - 1].end = "commit"
                 /\ oplog[i - 1].chunk = oplog[i].chunk
          /\ oplog[i].op = "append_to_parquet" =>
                 /\ i > 1
                 /\ oplog[i - 1].op = "bulk_load_precios"
                 /\ oplog[i - 1].end = "commit"
                 /\ oplog[i - 1].chunk = oplog[i].chunk
          /\ (oplog[i].chunk > 0 /\ oplog[i].end = "raise") =>
                 \A j \in (i + 1)..Len(oplog) : oplog[j].chunk # oplog[i].chunk
    /\ LET appended == SelectSeq(oplog, LAMBDA c : c.op = "append_to_parquet"
                                                   /\ c.end = "commit")
       IN  total_prices_loaded =
               BagCardinality(BagSum([i \in 1..Len(appended) |->
                   CopyRows(appended[i].rows, run, TargetDate)]))

\* C27 witness: the run completed; the bulk load of one chunk raised, and
\* another chunk went through its three steps and is the only one counted.
C27_Witness ==
    /\ pc = "done"
    /\ \E i \in Calls("bulk_load_precios") : oplog[i].end = "raise"
    /\ Cardinality(Commits("append_to_parquet")) = 1
    /\ total_prices_loaded > 0

\* C28 (as claimed): the relational state a run leaves does not depend on
\* the order in which the extractions complete: when a run in which nothing
\* failed has completed, every run of the same archives from the same store,
\* whatever the order of completion, ends with the same Comercio, Sucursal
\* and productos_master rows and the same fact rows.
C28_StateIndependentOfCompletionOrder ==
    (run = 1 /\ pc = "done" /\ faults = 0)
    => \A st \in UninterruptedRuns(initial_db) : SameState(db, st)

\* C29: any two distinct archives of the date directory are unpacked into
\* distinct directories under the temp directory of the date, each named
\* after its own archive, so that the extractions that run at the same time,
\* and those that ran before, never write the same member file.
C29_ArchivesUnpackIntoDistinctDirectories ==
    \A t, u \in Submitted :
        t # u =>
            /\ Stem(ZipPath(t)) # Stem(ZipPath(u))
            /\ Stem(ZipPath(t)) \o <<"zip">> = ZipPath(t)
            /\ {<<Stem(ZipPath(t)), n>> : n \in EXPECTED_FILES}
                   \cap {<<Stem(ZipPath(u)), n>> : n \in EXPECTED_FILES} = {}

\* C29 witness: the extractions of sepa_1.bak.zip and sepa_1.zip are running
\* at the same time.
C29_Witness ==
    /\ {1, 2} \subseteq Running
    /\ Head(ZipPath(1)) = Head(ZipPath(2))

\* C30: a chunk that has no rows left after validation and the referential
\* filter makes no loader call (no productos_master upsert, no bulk load, no
\* archive append): every loader call of the chunk loop has rows; no writer
\* is made and nothing is counted but by a chunk that has rows.
C30_EmptyChunkCallsNoLoader ==
    /\ \A k \in 1..Len(chunk_log) :
          chunk_log[k].end = "empty" =>
              /\ chunk_log[k].height = 0
              /\ ChunkReads(chunk_log[k].archive)
              /\ ChunkFrame(chunk_log[k].archive) = <<>>
              /\ \A i \in 1..Len(oplog) : oplog[i].chunk # k
    /\ \A i \in 1..Len(oplog) : oplog[i].chunk > 0 => Len(oplog[i].rows) > 0
    /\ (\A i \in 1..Len(oplog) : oplog[i].chunk = 0) =>
           /\ writers_created = 0
           /\ parquet_writer = "None"
           /\ total_prices_loaded = 0
           /\ (Commits("prepare_precios_partition") # {} => db.precios = EmptyBag)

\* C30 witness: the run completed; a chunk whose file has rows had none left
\* after the referential filter and made no loader call, and a later chunk
\* was loaded and alone made the total.
C30_Witness ==
    /\ pc = "done"
    /\ \E k, l \in 1..Len(chunk_log) :
          /\ k < l
          /\ chunk_log[k].end = "empty"
          /\ archives[chunk_log[k].archive].productos.rows # <<>>
          /\ chunk_log[l].end = "loaded"
          /\ total_prices_loaded = chunk_log[l].height
    /\ writers_created = 1

\* C22: hurtar_datos goes through connect, parse and download in that
\* order and stops at the first that fails: with no response it returns
\* False after _connect_to_source alone; with a response in which no link is
\* found it returns False after _parse_html, with no download; otherwise it
\* calls _download_data with the link found and the minimum it was given,
\* and returns what that call returned.
C22_ConnectParseDownloadInOrder ==
    (entry.fn = "hurtar_datos" /\ spc = "returned") =>
        LET fns == [i \in 1..Len(steps) |-> steps[i].fn]
        IN  IF response[1].none
            THEN /\ fns = <<"_connect_to_source">>
                 /\ returned = <<FALSE>>
                 /\ requests = 0
            ELSE IF parse_html(response[1].links, fecha) = None
            THEN /\ fns = <<"_connect_to_source", "_parse_html">>
                 /\ returned = <<FALSE>>
                 /\ requests = 0
            ELSE /\ fns = <<"_connect_to_source", "_parse_html", "_download_data">>
                 /\ steps[3].download_link = parse_html(response[1].links, fecha)
                 /\ steps[3].min_file_size_mb = entry.min_file_size_mb
                 /\ returned = <<steps[3].result>>

\* C22 witness: hurtar_datos returned True; the link was the second of the
\* page, written in capitals, and was handed on as it stood.
C22_Witness ==
    /\ entry.fn = "hurtar_datos"
    /\ spc = "returned"
    /\ returned = <<TRUE>>
    /\ Len(response[1].links) = 2
    /\ download_link = response[1].links[2]
    /\ download_link # ToLowercase(download_link)
    /\ entry.min_file_size_mb = 150

\* C23: _download_data returns True only when the file it stored has at
\* least min_file_size_mb MB; when it returns False because the file that
\* came is smaller, no file of the day is left in the data directory; with
\* an empty link it returns False and makes no request.
C23_DownloadKeepsOnlyFilesOfTheMinimumSize ==
    (spc = "returned" /\ steps # <<>>
        /\ steps[Len(steps)].fn = "_download_data") =>
        LET d == steps[Len(steps)]
        IN  /\ d.result =>
                /\ storage_filename(fecha) \in DOMAIN data_dir
                /\ data_dir[storage_filename(fecha)] >= d.min_file_size_mb * 1048576
            /\ (~d.result /\ d.outcome = "complete") =>
                /\ d.size < d.min_file_size_mb * 1048576
                /\ \A n \in DOMAIN data_dir :
                       n \notin {"sepa_precios" \o fecha.hoy \o ".zip",
                                 "sepa_precios_" \o fecha.hoy \o ".zip"}
            /\ d.download_link = <<>> =>
                /\ ~d.result
                /\ requests = 0
            /\ returned = <<d.result>>

\* C23 witness: _download_data, called on its own with a minimum of 150 MB,
\* got a file one byte short of it, returned False and left no file.
C23_Witness ==
    /\ entry.fn = "_download_data"
    /\ spc = "returned"
    /\ returned = <<FALSE>>
    /\ steps[1].outcome = "complete"
    /\ steps[1].size = 150 * 1048576 - 1
    /\ steps[1].min_file_size_mb = 150
    /\ data_dir = <<>>
    /\ requests = 1

\* C24 (as claimed): after _download_data returned True on the day
\* YYYY-MM-DD, the data directory holds the file
\* sepa_precios_YYYY-MM-DD.zip.
C24_StoredAsSepaPreciosUnderscoreDate ==
    (spc = "returned" /\ steps # <<>>
        /\ steps[Len(steps)].fn = "_download_data"
        /\ steps[Len(steps)].result)
    => ("sepa_precios_" \o fecha.hoy \o ".zip") \in DOMAIN data_dir

\* C25 (as claimed): _connect_to_source makes at most 3 attempts; it returns
\* the response of the first attempt that succeeds; and it gives up only
\* after 3 failed attempts in a row, by raising.
C25_ThreeAttemptsThenRaise ==
    (response # <<>> \/ spc = "raised") =>
        /\ Len(attempts) <= 3
        /\ (response # <<>> /\ ~response[1].none) =>
               /\ attempts[Len(attempts)] = "ok"
               /\ \A i \in 1..(Len(attempts) - 1) : attempts[i] # "ok"
        /\ attempts[Len(attempts)] # "ok" =>
               /\ Len(attempts) = 3
               /\ spc = "raised"

=============================================================================
